---- MODULE Spec2Model ----
(***************************************************************************)
(* Productive-mining backend: valuation engine, simulated and real         *)
(* computation engines, hybrid router, and the mining operation manager    *)
(* with its storage and event-publish collaborators.                       *)
(*                                                                         *)
(* Units.  Python floats are modelled by exact integers:                   *)
(*   money      cents (the code rounds every reported amount to 2 places), *)
(*              intermediate sums carry an exact fraction over FracDen;    *)
(*   time       milliseconds;                                              *)
(*   energy     micro-kWh (1e-6 kWh);                                      *)
(*   progress   tenths (0, 1, 8, 10 for 0.0, 0.1, 0.8, 1.0).               *)
(***************************************************************************)
EXTENDS Integers, Sequences, FiniteSets, TLC

VARIABLES
    engine,              \* which engine the manager was constructed with
    operations,          \* mining_operations table, indexed by SERIAL id
    tasks,               \* one execution task per operation (position + locals)
    mathematical_work,   \* mathematical_work table (discoveries)
    blocks,              \* blocks table, in insertion (SERIAL id) order
    active_connections,  \* WebSocketManager.active_connections (count)
    history,             \* history of the run: overlapping block creations, failed
                         \* appends, storage failures, the last response to a submission
    vIn, vOut,           \* valuation engine: call arguments and returned valuation
    hIn, hOut,           \* hybrid router: call arguments and returned envelope
    autonomous_miners_running,  \* MiningOperationManager.autonomous_miners_running
    miners,              \* producer loops: position and locals of each
    monitors,            \* health monitor and metrics aggregator loops
    network_metrics,     \* network_metrics table: the distinct rows stored
    verIn, verOut,       \* result verification: call arguments and returned report
    collatz,             \* real Collatz engine: the locals of one call in progress
    earlier              \* loops of earlier start calls that are still live, per name

vars == <<engine, operations, tasks, mathematical_work, blocks, active_connections,
          history, vIn, vOut, hIn, hOut, autonomous_miners_running, miners, monitors,
          network_metrics, verIn, verOut, collatz, earlier>>

loopVars == <<autonomous_miners_running, miners, monitors, network_metrics, earlier>>

callVars == <<vIn, vOut, hIn, hOut, verIn, verOut, collatz>>

managerVars == <<engine, operations, tasks, mathematical_work, blocks,
                 active_connections, history>>

(***************************************************************************)
(* Bounds of the model.                                                    *)
(***************************************************************************)
MaxOps == 2             \* operations submitted in one run
MaxConnections == 1     \* websocket clients connected at once
MaxRealTime == 1        \* measured wall-clock time of a real computation, ms
MaxStorageFaults == 1   \* storage calls that fail in one run
MaxTimeSteps == 3       \* valuation inputs: computation_time = k * TimeStep
MaxRestarts == 1        \* later start calls that find loops of an earlier call live
MaxEnergySteps == 3     \* valuation inputs: energy_consumed = k * EnergyStep
TimeStep == 20000000    \* ms
EnergyStep == 5000000   \* micro-kWh

(***************************************************************************)
(* Program constants.                                                      *)
(***************************************************************************)
MinDifficulty == 1
MaxDifficulty == 1000
MinValueCents == 120000         \* $1200
MaxValueCents == 350000         \* $3500
FracDen == 36000                \* denominator of the exact fraction of a cent
CostCapFrac == 720000000        \* $200 = 20000 cents, over FracDen
DefaultBaseValue == 600
DefaultResearchImpact == 150
FibOverflowIndex == 1477        \* first i with float(fib(i)) overflowing

Max2(a, b) == IF a >= b THEN a ELSE b
Min2(a, b) == IF a <= b THEN a ELSE b

(***************************************************************************)
(* Work types.                                                             *)
(***************************************************************************)
SimWorkTypes ==
    {"riemann_zero", "prime_pattern", "yang_mills", "navier_stokes",
     "goldbach_verification", "birch_swinnerton_dyer", "elliptic_curve_crypto",
     "lattice_crypto", "poincare_conjecture"}

real_computation_types ==
    {"goldbach_verification", "prime_gap_analysis", "fibonacci_patterns",
     "collatz_verification"}

RealEngineMethods ==
    {"goldbach_verification", "prime_gap_analysis", "fibonacci_patterns",
     "collatz_verification"}

UnknownWorkType == "unknown_work"

WorkTypes == SimWorkTypes \cup real_computation_types \cup {UnknownWorkType}

Difficulties == MinDifficulty..MaxDifficulty

(***************************************************************************)
(* Valuation engine (scientific_valuation.py).                             *)
(***************************************************************************)
base_research_values(w) ==
    CASE w = "riemann_zero" -> 800
      [] w = "prime_pattern" -> 600
      [] w = "yang_mills" -> 1200
      [] w = "navier_stokes" -> 900
      [] w = "goldbach_verification" -> 500
      [] w = "birch_swinnerton_dyer" -> 700
      [] w = "elliptic_curve_crypto" -> 800
      [] w = "lattice_crypto" -> 750
      [] w = "poincare_conjecture" -> 1000
      [] OTHER -> DefaultBaseValue

research_impact_factors(w) ==
    CASE w = "yang_mills" -> 300
      [] w = "riemann_zero" -> 200
      [] w = "poincare_conjecture" -> 250
      [] w = "prime_pattern" -> 150
      [] w = "navier_stokes" -> 180
      [] w = "goldbach_verification" -> 100
      [] w = "birch_swinnerton_dyer" -> 160
      [] w = "elliptic_curve_crypto" -> 170
      [] w = "lattice_crypto" -> 140
      [] OTHER -> DefaultResearchImpact

\* round(x, 2) of whole + frac/FracDen cents: nearest cent, ties to even.  (On an
\* exact tie the binary float that the code rounds may lie just under the tie and
\* give one cent less; only research_impact has exact ties on the inputs used.)
RoundCents(whole, frac) ==
    IF 2 * frac > FracDen THEN whole + 1
    ELSE IF 2 * frac < FracDen THEN whole
    ELSE IF whole % 2 = 0 THEN whole ELSE whole + 1

calculate_computational_cost_folding(computation_time, energy_consumed) ==
    IF 10 * computation_time + 54 * energy_consumed > CostCapFrac
    THEN 0
    ELSE 10 * computation_time + 54 * energy_consumed

\* (computation_time / 3600) * 0.10 + energy_consumed * 0.15 dollars, scaled by
\* 100 and capped at 200: in cents this is t_ms/3600 + 3*e/2000, i.e.
\* (10*t_ms + 54*e) / FracDen.
calculate_computational_cost(computation_time, energy_consumed) ==
    Min2(10 * computation_time + 54 * energy_consumed, CostCapFrac)

\* min(1.0 + (difficulty / 1000) * 0.5, 1.5), in units of 1/2000.
difficulty_multiplier(difficulty) ==
    Min2(2000 + difficulty, 3000)

\* max(1200, min(total_value, 3500)) on whole + frac/FracDen cents.
ClampNoFloor(t) ==
    IF t.whole >= MaxValueCents THEN [whole |-> MaxValueCents, frac |-> 0] ELSE t

ClampValue(t) ==
    IF t.whole < MinValueCents THEN [whole |-> MinValueCents, frac |-> 0]
    ELSE IF t.whole >= MaxValueCents THEN [whole |-> MaxValueCents, frac |-> 0]
    ELSE t

\* An argument that is no number (None, a string): arithmetic on it raises
\* TypeError.
NotANumber == -1

\* The except branch of calculate_scientific_value: the fallback dict, in cents.
FallbackValuation(error) ==
    [base_value |-> 120000, computational_cost |-> 5000, research_impact |-> 15000,
     total_value |-> 120000, error |-> error, raised |-> FALSE]

\* The try block of calculate_scientific_value, on numbers.
ValuationOf(work_type, difficulty, computation_time, energy_consumed) ==
    LET base_value == base_research_values(work_type)
        research_impact == research_impact_factors(work_type)
        computational_cost ==
            calculate_computational_cost(computation_time, energy_consumed)
        \* research_impact * difficulty_multiplier, in 1/20 cents
        impact20 == research_impact * difficulty_multiplier(difficulty)
        fracSum == (impact20 % 20) * (FracDen \div 20) + computational_cost
        total_value ==
            [whole |-> base_value * 100 + impact20 \div 20 + fracSum \div FracDen,
             frac |-> fracSum % FracDen]
        clamped == ClampValue(total_value)
    IN  [base_value |-> base_value * 100,
         computational_cost |->
             RoundCents(computational_cost \div FracDen, computational_cost % FracDen),
         research_impact |-> RoundCents(impact20 \div 20, (impact20 % 20) * (FracDen \div 20)),
         total_value |-> RoundCents(clamped.whole, clamped.frac),
         error |-> "", raised |-> FALSE]

calculate_scientific_value_unguarded(work_type, difficulty, computation_time, energy_consumed) ==
    IF computation_time = NotANumber \/ energy_consumed = NotANumber
    THEN [base_value |-> 0, computational_cost |-> 0, research_impact |-> 0,
          total_value |-> 0, error |-> "TypeError", raised |-> TRUE]
    ELSE ValuationOf(work_type, difficulty, computation_time, energy_consumed)

\* ScientificValuationEngine.calculate_scientific_value: the try block, and the
\* except Exception branch around it.
calculate_scientific_value(work_type, difficulty, computation_time, energy_consumed) ==
    IF computation_time = NotANumber \/ energy_consumed = NotANumber
    THEN FallbackValuation("TypeError")
    ELSE ValuationOf(work_type, difficulty, computation_time, energy_consumed)

(***************************************************************************)
(* Simulated engine (mathematical_engines.py).                             *)
(* computation_time = max(floor, difficulty / divisor) seconds and         *)
(* energyConsumed = computation_time * rate kWh, per work type.            *)
(***************************************************************************)
SimTimeFloor(w) ==       \* ms
    CASE w = "riemann_zero" -> 1000
      [] w = "prime_pattern" -> 1000
      [] w = "yang_mills" -> 2000
      [] w = "navier_stokes" -> 1500
      [] w = "goldbach_verification" -> 800
      [] w = "birch_swinnerton_dyer" -> 1200
      [] w = "elliptic_curve_crypto" -> 1000
      [] w = "lattice_crypto" -> 1500
      [] w = "poincare_conjecture" -> 2000

SimTimeDivisor(w) ==
    CASE w = "riemann_zero" -> 50
      [] w = "prime_pattern" -> 60
      [] w = "yang_mills" -> 40
      [] w = "navier_stokes" -> 45
      [] w = "goldbach_verification" -> 70
      [] w = "birch_swinnerton_dyer" -> 50
      [] w = "elliptic_curve_crypto" -> 55
      [] w = "lattice_crypto" -> 40
      [] w = "poincare_conjecture" -> 35

SimEnergyRate(w) ==      \* kWh per second, in thousandths
    CASE w = "riemann_zero" -> 50
      [] w = "prime_pattern" -> 60
      [] w = "yang_mills" -> 80
      [] w = "navier_stokes" -> 70
      [] w = "goldbach_verification" -> 50
      [] w = "birch_swinnerton_dyer" -> 90
      [] w = "elliptic_curve_crypto" -> 60
      [] w = "lattice_crypto" -> 100
      [] w = "poincare_conjecture" -> 120

RealEnergyRate(w) ==     \* kWh per second, in thousandths
    CASE w = "goldbach_verification" -> 80
      [] w = "prime_gap_analysis" -> 75
      [] w = "fibonacci_patterns" -> 60
      [] w = "collatz_verification" -> 70

\* What a compute call hands back: either it raised (error names the exception), or
\* a result dict.  keys is the set of optional keys present in the dict.
NoValuation ==
    [base_value |-> 0, computational_cost |-> 0, research_impact |-> 0, total_value |-> 0,
     error |-> "", raised |-> FALSE]

Raised(err, simCalls, realCalls) ==
    [raised |-> TRUE, error |-> err, keys |-> {}, workType |-> "", difficulty |-> 0,
     computationTime |-> 0, energyConsumed |-> 0, computationMode |-> "",
     verified |-> FALSE, scientificValue |-> NoValuation,
     simCalls |-> simCalls, realCalls |-> realCalls]

NoResult == Raised("", 0, 0)

SimComputeAnyType(work_type, difficulty) ==
    [raised |-> FALSE, error |-> "", keys |-> {"signature"},
     workType |-> work_type, difficulty |-> difficulty,
     computationTime |-> 1000, energyConsumed |-> 50000,
     computationMode |-> "", verified |-> FALSE,
     scientificValue |-> NoValuation, simCalls |-> 1, realCalls |-> 0]

\* MathematicalEngines.compute_mathematical_work
SimCompute(work_type, difficulty) ==
    IF work_type \notin SimWorkTypes
    THEN Raised("ValueError: Unknown work type", 1, 0)
    ELSE LET computation_time ==
                 Max2(SimTimeFloor(work_type),
                      (difficulty * 1000) \div SimTimeDivisor(work_type))
         IN  [raised |-> FALSE, error |-> "", keys |-> {"signature"},
              workType |-> work_type, difficulty |-> difficulty,
              computationTime |-> computation_time,
              energyConsumed |-> computation_time * SimEnergyRate(work_type),
              computationMode |-> "", verified |-> FALSE,
              scientificValue |-> NoValuation, simCalls |-> 1, realCalls |-> 0]

\* The real method itself raises: compute_fibonacci_patterns_real calls
\* _is_prime(fib[i]) for every i < sequence_length = 50 + 10 * difficulty, and
\* int(n ** 0.5) overflows once fib[i] exceeds the float range; besides, any
\* method may fail for lack of resources (fault).
RealMethodRaises(work_type, difficulty, fault) ==
    \/ fault
    \/ work_type = "fibonacci_patterns" /\ 50 + 10 * difficulty > FibOverflowIndex

\* RealMathematicalEngines.compute_real_mathematics; computation_time is the
\* wall-clock time the method measured.
RealCompute(work_type, difficulty, computation_time, fault) ==
    IF work_type \notin RealEngineMethods
    THEN Raised("ValueError: Unknown real computation type", 0, 1)
    ELSE IF RealMethodRaises(work_type, difficulty, fault)
    THEN Raised("real engine error", 0, 1)
    ELSE [raised |-> FALSE, error |-> "", keys |-> {"realComputation"},
          workType |-> work_type, difficulty |-> difficulty,
          computationTime |-> computation_time,
          energyConsumed |-> computation_time * RealEnergyRate(work_type),
          computationMode |-> "", verified |-> FALSE,
          scientificValue |-> NoValuation, simCalls |-> 0, realCalls |-> 1]

(***************************************************************************)
(* The real engine's own verification: verificationData['verified'] of     *)
(* each real method, as a function of the difficulty.                      *)
(***************************************************************************)
SieveLimit == 100000            \* _precompute_primes(100000)
SieveRoot == 316                \* int(limit ** 0.5)

\* i is in computed_primes: within the sieve and not struck out by any
\* j <= int(limit ** 0.5) with j * j <= i
computed_primes(i) ==
    /\ i >= 2
    /\ i <= SieveLimit
    /\ \A j \in 2..SieveRoot : (j * j <= i) => (i % j # 0)

\* analyze_prime_gaps_real: len(primes_in_range) > 0, the sieve's primes p with
\* start_range <= p <= end_range
primes_in_range(difficulty) ==
    LET start_range == 1000 + difficulty * 1000
        end_range == start_range + difficulty * 2000
    IN  \E p \in start_range..Min2(end_range, SieveLimit) : computed_primes(p)

\* verificationData['verified'].  Goldbach: verified_count == len(even_numbers),
\* and every even number of the window, at most 4 + 150 * 200, is a sum of two
\* primes.  Fibonacci: len(fib_sequence) == sequence_length, the list starting
\* as [0, 1].  Collatz: convergence_rate >= 0.95, every start of the window
\* reaching 1 within the step limit.
verification_data_verified(work_type, difficulty) ==
    CASE work_type = "goldbach_verification" -> TRUE
      [] work_type = "prime_gap_analysis" -> primes_in_range(difficulty)
      [] work_type = "fibonacci_patterns" -> 50 + 10 * difficulty >= 2
      [] work_type = "collatz_verification" -> TRUE
      [] OTHER -> FALSE

(***************************************************************************)
(* Real Collatz engine: compute_collatz_verification_real, one loop        *)
(* iteration per step.  pc "trial" is inside the while loop of trial i,    *)
(* "done" is after the for loop.  Python integers do not overflow; the     *)
(* values reached here stay far below 2^31.                                *)
(***************************************************************************)
CollatzStepLimit == 10000

\* start_value = 1000 + (difficulty * 500)
start_value(difficulty) == 1000 + difficulty * 500

\* verification_count = 20 + difficulty
verification_count(difficulty) == 20 + difficulty

\* The body of the while loop: current // 2 or 3 * current + 1.
CollatzNext(current) == IF current % 2 = 0 THEN current \div 2 ELSE 3 * current + 1

\* The for loop takes up trial i (current = start_value + i, steps = 0), or ends.
CollatzTrial(c, i) ==
    IF i < verification_count(c.difficulty)
    THEN [c EXCEPT !.pc = "trial", !.i = i,
                   !.current = start_value(c.difficulty) + i, !.steps = 0]
    ELSE [c EXCEPT !.pc = "done", !.i = i]

\* The while loop without its safety limit.
CollatzStepUnlimited ==
    /\ collatz.pc = "trial"
    /\ collatz.current # 1
    /\ collatz' = [collatz EXCEPT !.current = CollatzNext(@), !.steps = @ + 1]
    /\ UNCHANGED <<vIn, vOut, hIn, hOut, verIn, verOut>>
    /\ UNCHANGED <<managerVars, loopVars>>

\* One iteration of: while current != 1 and steps < 10000
CollatzStep ==
    /\ collatz.pc = "trial"
    /\ collatz.current # 1 /\ collatz.steps < CollatzStepLimit
    /\ collatz' = [collatz EXCEPT !.current = CollatzNext(@), !.steps = @ + 1]
    /\ UNCHANGED <<vIn, vOut, hIn, hOut, verIn, verOut>>
    /\ UNCHANGED <<managerVars, loopVars>>

\* The while loop has ended: converged = current == 1, the trial is appended to
\* collatz_results and the for loop goes on.
CollatzRecord ==
    /\ collatz.pc = "trial"
    /\ ~(collatz.current # 1 /\ collatz.steps < CollatzStepLimit)
    /\ collatz' = CollatzTrial(
           [collatz EXCEPT !.collatz_results =
               Append(@, [startValue |-> start_value(collatz.difficulty) + collatz.i,
                          steps |-> collatz.steps,
                          final |-> collatz.current,
                          converged |-> collatz.current = 1])],
           collatz.i + 1)
    /\ UNCHANGED <<vIn, vOut, hIn, hOut, verIn, verOut>>
    /\ UNCHANGED <<managerVars, loopVars>>

(***************************************************************************)
(* Hybrid router (hybrid_mathematical_system.py).                          *)
(***************************************************************************)
tractability_thresholds(w) ==
    CASE w = "goldbach_verification" -> 200
      [] w = "prime_gap_analysis" -> 150
      [] w = "fibonacci_patterns" -> 300
      [] w = "collatz_verification" -> 100
      [] OTHER -> 0

determine_computation_mode_ge(work_type, difficulty) ==
    IF work_type \notin real_computation_types THEN "simulation"
    ELSE IF difficulty >= tractability_thresholds(work_type) THEN "simulation"
    ELSE "real"

determine_computation_mode(work_type, difficulty) ==
    IF work_type \notin real_computation_types THEN "simulation"
    ELSE IF difficulty > tractability_thresholds(work_type) THEN "simulation"
    ELSE "real"

\* The except branch of compute_mathematical_work: one more call of the simulation
\* engine, outside any try; first is the attempt that raised.
HybridFallback(work_type, difficulty, first) ==
    LET result == SimCompute(work_type, difficulty)
    IN  IF result.raised
        THEN Raised(result.error, first.simCalls + 1, first.realCalls)
        ELSE [result EXCEPT !.computationMode = "simulation_fallback",
                            !.error = first.error,
                            !.keys = @ \cup {"computationMode", "error"},
                            !.simCalls = first.simCalls + 1,
                            !.realCalls = first.realCalls]

\* The try branch: the chosen engine, then the mode, the verified flag and the
\* valuation merged into the result.
HybridAttempt(work_type, difficulty, computation_time, fault) ==
    LET computation_mode == determine_computation_mode(work_type, difficulty)
        result == IF computation_mode = "real"
                  THEN RealCompute(work_type, difficulty, computation_time, fault)
                  ELSE SimCompute(work_type, difficulty)
    IN  IF result.raised THEN result
        ELSE [result EXCEPT
                 !.computationMode = computation_mode,
                 !.verified = (computation_mode = "real"),
                 !.scientificValue =
                     calculate_scientific_value(work_type, difficulty,
                         result.computationTime, result.energyConsumed),
                 !.keys = @ \cup {"computationMode", "verified", "scientificValue",
                                  "hybridSystem"}]

\* HybridMathematicalSystem.compute_mathematical_work
compute_mathematical_work(work_type, difficulty, computation_time, fault) ==
    LET first == HybridAttempt(work_type, difficulty, computation_time, fault)
    IN  IF first.raised THEN HybridFallback(work_type, difficulty, first) ELSE first

(***************************************************************************)
(* Verification (hybrid_mathematical_system.py).  A score is an exact      *)
(* fraction num / den in lowest terms with den > 0, or the comparison      *)
(* raised (ZeroDivisionError).  Times are in ms, energies in micro-kWh and *)
(* the real engines' metrics (successRate, averageGap,                     *)
(* goldenRatioApproximation, convergenceRate) in thousandths.              *)
(***************************************************************************)
RECURSIVE GCD(_, _)
GCD(a, b) == IF b = 0 THEN a ELSE GCD(b, a % b)

Abs(a) == IF a < 0 THEN -a ELSE a

Frac(num, den) ==
    LET g == GCD(Abs(num), den)
    IN  [raised |-> FALSE, num |-> num \div g, den |-> den \div g]

ScoreRaised == [raised |-> TRUE, num |-> 0, den |-> 1]

\* What the comparisons read of a result dict; metric is the entry of
\* computationResult that _compare_real_results reads for the work type (0, the
\* default, when the dict has none).
ResultOf(work_type, computationMode, computationTime, energyConsumed, metric) ==
    [workType |-> work_type, computationMode |-> computationMode,
     computationTime |-> computationTime, energyConsumed |-> energyConsumed,
     metric |-> metric]

\* 1.0 - abs(a - b), a and b in thousandths
RateSimilarity(a, b) == Frac(1000 - Abs(a - b), 1000)

\* 1.0 - abs(a - b) / max(a, b) if max(a, b) > 0, else 1.0
RatioSimilarity(a, b) ==
    IF Max2(a, b) > 0 THEN Frac(Max2(a, b) - Abs(a - b), Max2(a, b)) ELSE Frac(1, 1)

\* HybridMathematicalSystem._compare_real_results
compare_real_results(result1, result2) ==
    CASE result1.workType = "goldbach_verification" ->
             RateSimilarity(result1.metric, result2.metric)
      [] result1.workType = "prime_gap_analysis" ->
             RatioSimilarity(result1.metric, result2.metric)
      [] result1.workType = "fibonacci_patterns" ->
             RatioSimilarity(result1.metric, result2.metric)
      [] result1.workType = "collatz_verification" ->
             RateSimilarity(result1.metric, result2.metric)
      [] OTHER -> Frac(1, 2)

\* 1.0 - min(abs(a - b) / max(a, b), 1.0), for max(a, b) > 0
BoundedSimilarity(a, b) ==
    Frac(Max2(a, b) - Min2(Abs(a - b), Max2(a, b)), Max2(a, b))

\* HybridMathematicalSystem._compare_statistical_results: the division by
\* max(time1, time2) and by max(energy1, energy2) is not guarded.
compare_statistical_results(result1, result2) ==
    IF Max2(result1.computationTime, result2.computationTime) = 0
       \/ Max2(result1.energyConsumed, result2.energyConsumed) = 0
    THEN ScoreRaised
    ELSE LET time_similarity ==
                 BoundedSimilarity(result1.computationTime, result2.computationTime)
             energy_similarity ==
                 BoundedSimilarity(result1.energyConsumed, result2.energyConsumed)
         IN  Frac(time_similarity.num * energy_similarity.den
                    + energy_similarity.num * time_similarity.den,
                  2 * time_similarity.den * energy_similarity.den)

at_least_threshold(score) == 20 * score.num >= 17 * score.den

\* verification_score > 0.85
above_threshold(score) == 20 * score.num > 17 * score.den

NotVerified(reason, recomputations) ==
    [verified |-> FALSE, reason |-> reason, scored |-> FALSE, score |-> ScoreRaised,
     verificationMode |-> "", recomputations |-> recomputations]

\* HybridMathematicalSystem.verify_mathematical_result.  result is the dict to
\* verify; metric, computation_time and fault are what the re-computation yields
\* when it runs the real engine.  recomputations counts the calls of
\* compute_mathematical_work.
verify_mathematical_result(result, metric, computation_time, fault) ==
    IF result.workType = "" \/ result.difficulty = 0
    THEN NotVerified("Missing work type or difficulty", 0)
    ELSE LET recomputed == compute_mathematical_work(result.workType, result.difficulty,
                               computation_time, fault)
             verification_result ==
                 ResultOf(recomputed.workType, recomputed.computationMode,
                          recomputed.computationTime, recomputed.energyConsumed,
                          IF recomputed.computationMode = "real" THEN metric ELSE 0)
             verification_score ==
                 IF result.computationMode = "real"
                    /\ verification_result.computationMode = "real"
                 THEN compare_real_results(result, verification_result)
                 ELSE compare_statistical_results(result, verification_result)
         IN  IF recomputed.raised \/ verification_score.raised
             THEN NotVerified("Verification error", 1)
             ELSE [verified |-> above_threshold(verification_score), reason |-> "",
                   scored |-> TRUE, score |-> verification_score,
                   verificationMode |-> recomputed.computationMode,
                   recomputations |-> 1]

(***************************************************************************)
(* Storage collaborator (database.py).                                     *)
(***************************************************************************)
\* previous_hash of the first block: "0" * 64.
ZeroHash == <<-1, <<>>, 0>>

\* sha256(f"{index}{previous_hash}{merkle_root}{nonce}") with nonce derived from the
\* same three values: a collision-free digest of (index, previous_hash, merkle_root).
BlockHash(index, previous_hash, merkle_root) == <<index, previous_hash, merkle_root>>

\* INSERT INTO blocks ... RETURNING *: no constraint on index or previous_hash.
create_block_unique(blks, index, previous_hash, merkle_root, difficulty, total_scientific_value, miner_id, energy_consumed, knowledge_created) ==
    IF \E k \in 1..Len(blks) : blks[k].index = index
    THEN blks
    ELSE Append(blks,
           [index |-> index, previous_hash |-> previous_hash,
            merkle_root |-> merkle_root,
            block_hash |-> BlockHash(index, previous_hash, merkle_root),
            difficulty |-> difficulty,
            total_scientific_value |-> total_scientific_value, miner_id |-> miner_id,
            energy_consumed |-> energy_consumed,
            knowledge_created |-> knowledge_created])

create_block_latest_discovery(blks, index, previous_hash, merkle_root, difficulty, total_scientific_value, miner_id, energy_consumed, knowledge_created) ==
    Append(blks,
           [index |-> index, previous_hash |-> previous_hash,
            merkle_root |-> 1,
            block_hash |-> BlockHash(index, previous_hash, 1),
            difficulty |-> difficulty,
            total_scientific_value |-> total_scientific_value, miner_id |-> miner_id,
            energy_consumed |-> energy_consumed,
            knowledge_created |-> knowledge_created])

create_block(blks, index, previous_hash, merkle_root, difficulty, total_scientific_value, miner_id, energy_consumed, knowledge_created) ==
    Append(blks,
           [index |-> index, previous_hash |-> previous_hash,
            merkle_root |-> merkle_root,
            block_hash |-> BlockHash(index, previous_hash, merkle_root),
            difficulty |-> difficulty,
            total_scientific_value |-> total_scientific_value, miner_id |-> miner_id,
            energy_consumed |-> energy_consumed,
            knowledge_created |-> knowledge_created])

\* SELECT * FROM blocks ORDER BY index DESC LIMIT 1: the ids of the rows the query
\* may return (any row of greatest index); empty when the table is.
get_latest_block(blks) ==
    {k \in 1..Len(blks) : \A j \in 1..Len(blks) : blks[j].index <= blks[k].index}

create_mining_operation(ops, operation_type, difficulty) ==
    Append(ops, [operation_type |-> operation_type, difficulty |-> difficulty,
                 progress |-> 0, current_result |-> "initializing", error |-> "",
                 status |-> "active"])

\* UPDATE mining_operations SET progress, current_result WHERE id
update_mining_operation(ops, operation_id, progress, result_status, error) ==
    [ops EXCEPT ![operation_id].progress = progress,
                ![operation_id].current_result = result_status,
                ![operation_id].error = error]

\* UPDATE mining_operations SET status = 'completed' WHERE id
complete_mining_operation(ops, operation_id) ==
    [ops EXCEPT ![operation_id].status = "completed"]

get_active_mining_operations(ops) ==
    {k \in 1..Len(ops) : ops[k].status = "active"}

\* SELECT * FROM blocks ORDER BY index DESC LIMIT $1: the ids of the rows returned.
get_blocks(blks, limit) ==
    {k \in 1..Len(blks) :
        Cardinality({j \in 1..Len(blks) :
            blks[j].index > blks[k].index \/ (blks[j].index = blks[k].index /\ j > k)})
        < limit}

create_mathematical_work(works, work_type, difficulty, computational_cost, energy_efficiency, scientific_value, worker_id) ==
    Append(works, [work_type |-> work_type, difficulty |-> difficulty,
                   computational_cost |-> computational_cost,
                   energy_efficiency |-> energy_efficiency,
                   scientific_value |-> scientific_value, worker_id |-> worker_id])

(***************************************************************************)
(* Event-publish collaborator (websocket_manager.py).                      *)
(***************************************************************************)
\* WebSocketManager.broadcast(data): returns at once without connections; otherwise
\* json.dumps(data) comes first, and raises TypeError for a payload that carries a
\* storage row (its timestamp column is a datetime).
broadcast(connections, carriesRow) ==
    IF connections = 0 THEN "no_connections"
    ELSE IF carriesRow THEN "raised"
    ELSE "sent"

(***************************************************************************)
(* Mining operation manager (mining_operations.py).                        *)
(*                                                                         *)
(* Tasks are asyncio coroutines: a task runs without interruption from one *)
(* suspension to the next.  Every storage call suspends; a broadcast of a  *)
(* payload carrying a storage row never does (it returns or raises before  *)
(* its first send).  One action is therefore one storage call together     *)
(* with the synchronous code that follows it up to the next storage call.  *)
(* A storage call may fail (connection error): it then raises in the task. *)
(***************************************************************************)
\* Work requests submitted in a run.  With the simulated engine: a type it knows, an
\* unknown type, and difficulties just outside 1..1000.  With the hybrid router: a
\* type both engines know, below and above its tractability threshold.
SubmitRequests ==
    IF engine = "hybrid"
    THEN {<<"goldbach_verification", 10>>, <<"goldbach_verification", 500>>}
    ELSE {<<"yang_mills", 500>>, <<UnknownWorkType, 10>>,
          <<"yang_mills", MinDifficulty - 1>>, <<"yang_mills", MaxDifficulty + 1>>}

OpIds == 1..Len(operations)

\* A storage call fails (the database raises), within the run's budget of failures.
StorageFault ==
    /\ history.faults < MaxStorageFaults
    /\ history' = [history EXCEPT !.faults = @ + 1]

NewTask ==
    [pc |-> "update_computing", computation_result |-> NoResult,
     scientific_value |-> NoValuation, work_id |-> 0,
     previous_hash |-> ZeroHash, next_index |-> 0, block_id |-> 0,
     error |-> "", faulted |-> FALSE, published |-> <<>>]

\* The task record once the except clause of _execute_mining_operation is entered
\* with exception err (the results computed so far are dead from here on).
Raise(t, err, isFault) ==
    [t EXCEPT !.pc = "except", !.error = err, !.faulted = @ \/ isFault,
              !.computation_result = NoResult, !.scientific_value = NoValuation]

\* The handle start_mining_operation returns: id, progress 0, status 'active'.
Handle(id) == [kind |-> "handle", id |-> id]

StartMiningOperationDetached(work_type, difficulty) ==
    /\ Len(operations) < MaxOps
    /\ \/ /\ operations' = create_mining_operation(operations, work_type, difficulty)
          /\ tasks' = Append(tasks, NewTask)
          /\ history' = [history EXCEPT !.response = Handle(Len(operations'))]
       \/ /\ history.faults < MaxStorageFaults
          /\ history' = [history EXCEPT !.faults = @ + 1,
                                        !.response = [kind |-> "raised", id |-> 0]]
          /\ operations' = create_mining_operation(operations, work_type, difficulty)
          /\ tasks' = Append(tasks, NewTask)
    /\ UNCHANGED <<engine, mathematical_work, blocks, active_connections>>

\* start_mining_operation: persist the record, create the execution task and return
\* the handle; when persisting raises, the exception is re-raised and no task is
\* created.
StartMiningOperation(work_type, difficulty) ==
    /\ Len(operations) < MaxOps
    /\ \/ /\ operations' = create_mining_operation(operations, work_type, difficulty)
          /\ tasks' = Append(tasks, NewTask)
          /\ history' = [history EXCEPT !.response = Handle(Len(operations'))]
       \/ /\ history.faults < MaxStorageFaults
          /\ history' = [history EXCEPT !.faults = @ + 1,
                                        !.response = [kind |-> "raised", id |-> 0]]
          /\ UNCHANGED <<operations, tasks>>
    /\ UNCHANGED <<engine, mathematical_work, blocks, active_connections>>

\* POST /api/mining/start-real: the request model validates difficulty (1..1000) and
\* accepts any string as workType; a valid request goes to start_mining_operation,
\* whose exception the endpoint turns into a server error.
SubmitWork(workType, difficulty) ==
    IF difficulty \notin Difficulties
    THEN /\ history' = [history EXCEPT !.response = [kind |-> "validation_error", id |-> 0]]
         /\ UNCHANGED <<engine, operations, tasks, mathematical_work, blocks,
                        active_connections>>
    ELSE StartMiningOperation(workType, difficulty)

\* math_engines.compute_mathematical_work and
\* valuation_engine.calculate_scientific_value (lines 88-96), both synchronous.
Computed(t, work_type, difficulty, computation_time, fault) ==
    LET computation_result ==
            IF engine = "hybrid"
            THEN compute_mathematical_work(work_type, difficulty, computation_time, fault)
            ELSE SimCompute(work_type, difficulty)
    IN  IF computation_result.raised
        THEN Raise(t, computation_result.error, fault)
        ELSE [t EXCEPT
                 !.pc = "update_validating",
                 !.faulted = @ \/ fault,
                 !.computation_result = computation_result,
                 !.scientific_value =
                     calculate_scientific_value(work_type, difficulty,
                         computation_result.computationTime,
                         computation_result.energyConsumed)]

\* await update_mining_operation(operation_id, 0.1, {"status": "computing"}), then
\* the computation and the valuation.
ExecUpdateComputing(o) ==
    /\ tasks[o].pc = "update_computing"
    /\ \/ /\ operations' = update_mining_operation(operations, o, 1, "computing", "")
          /\ UNCHANGED history
          /\ LET work_type == operations[o].operation_type
                 difficulty == operations[o].difficulty
                 realMode == /\ engine = "hybrid"
                             /\ determine_computation_mode(work_type, difficulty) = "real"
             IN  \E computation_time \in (IF realMode THEN 0..MaxRealTime ELSE {0}),
                    fault \in (IF realMode THEN BOOLEAN ELSE {FALSE}) :
                   tasks' = [tasks EXCEPT ![o] =
                       Computed(@, work_type, difficulty, computation_time, fault)]
       \/ /\ StorageFault
          /\ tasks' = [tasks EXCEPT ![o] = Raise(@, "storage error", TRUE)]
          /\ UNCHANGED operations
    /\ UNCHANGED <<engine, mathematical_work, blocks, active_connections>>

\* await update_mining_operation(operation_id, 0.8, {"status": "validating"})
ExecUpdateValidating(o) ==
    /\ tasks[o].pc = "update_validating"
    /\ \/ /\ operations' = update_mining_operation(operations, o, 8, "validating", "")
          /\ UNCHANGED history
          /\ tasks' = [tasks EXCEPT ![o].pc = "create_work"]
       \/ /\ StorageFault
          /\ tasks' = [tasks EXCEPT ![o] = Raise(@, "storage error", TRUE)]
          /\ UNCHANGED operations
    /\ UNCHANGED <<engine, mathematical_work, blocks, active_connections>>

\* await create_mathematical_work(..., signature=computation_result['signature']):
\* the arguments are evaluated first, and a result without that key raises KeyError.
ExecCreateWork(o) ==
    /\ tasks[o].pc = "create_work"
    /\ IF "signature" \notin tasks[o].computation_result.keys
       THEN /\ tasks' = [tasks EXCEPT ![o] = Raise(@, "KeyError: signature", FALSE)]
            /\ UNCHANGED <<mathematical_work, history>>
       ELSE \/ /\ mathematical_work' =
                    create_mathematical_work(mathematical_work,
                        operations[o].operation_type, operations[o].difficulty,
                        tasks[o].scientific_value.computational_cost,
                        tasks[o].computation_result.energyConsumed * 1000,
                        tasks[o].scientific_value.total_value, o)
               /\ tasks' = [tasks EXCEPT ![o].pc = "complete",
                                         ![o].work_id = Len(mathematical_work')]
               /\ UNCHANGED history
            \/ /\ StorageFault
               /\ tasks' = [tasks EXCEPT ![o] = Raise(@, "storage error", TRUE)]
               /\ UNCHANGED mathematical_work
    /\ UNCHANGED <<engine, operations, blocks, active_connections>>

\* await complete_mining_operation(operation_id)
ExecComplete(o) ==
    /\ tasks[o].pc = "complete"
    /\ \/ /\ operations' = complete_mining_operation(operations, o)
          /\ UNCHANGED history
          /\ tasks' = [tasks EXCEPT ![o].pc = "get_latest_block"]
       \/ /\ StorageFault
          /\ tasks' = [tasks EXCEPT ![o] = Raise(@, "storage error", TRUE)]
          /\ UNCHANGED operations
    /\ UNCHANGED <<engine, mathematical_work, blocks, active_connections>>

\* Another task sits between its read of the latest block and its append.
OtherCreationOpen(o) ==
    \E q \in OpIds : q # o /\ tasks[q].pc = "create_block"

PublishCompletedFirst(t, connections, blockCreated) ==
    LET outcome == broadcast(connections, TRUE)
        completed == Append(t.published,
                            [type |-> "mining_completed", outcome |-> outcome])
        after == [t EXCEPT
                    !.published =
                        IF blockCreated
                        THEN Append(completed, [type |-> "new_block", outcome |-> outcome])
                        ELSE completed,
                    !.computation_result = NoResult,
                    !.scientific_value = NoValuation]
    IN  IF outcome = "raised"
        THEN [after EXCEPT !.pc = "except", !.error = "TypeError: not JSON serializable"]
        ELSE [after EXCEPT !.pc = "done"]

\* The rest of the task once _create_block_with_discovery is past its storage calls:
\* the new_block broadcast when the block was created (an exception in it is logged
\* by the function's own except clause), then the mining_completed broadcast of
\* _execute_mining_operation, whose exception reaches the except clause there.
Publish(t, connections, blockCreated) ==
    LET afterBlock ==
            IF blockCreated
            THEN Append(t.published,
                        [type |-> "new_block", outcome |-> broadcast(connections, TRUE)])
            ELSE t.published
        outcome == broadcast(connections, TRUE)
        after == [t EXCEPT
                    !.published = Append(afterBlock,
                                         [type |-> "mining_completed", outcome |-> outcome]),
                    !.computation_result = NoResult,
                    !.scientific_value = NoValuation]
    IN  IF outcome = "raised"
        THEN [after EXCEPT !.pc = "except", !.error = "TypeError: not JSON serializable"]
        ELSE [after EXCEPT !.pc = "done"]

next_index_same(latest_index) == latest_index

\* next_index = latest_block['index'] + 1
next_index_of(latest_index) == latest_index + 1

\* _create_block_with_discovery, first await: latest_block, previous_hash, next_index.
\* An exception here is logged by the function's own except clause and not raised.
ExecGetLatestBlock(o) ==
    /\ tasks[o].pc = "get_latest_block"
    /\ \/ /\ \/ /\ get_latest_block(blocks) = {}
                /\ tasks' = [tasks EXCEPT ![o].pc = "create_block",
                                          ![o].previous_hash = ZeroHash,
                                          ![o].next_index = 0]
             \/ \E k \in get_latest_block(blocks) :
                   tasks' = [tasks EXCEPT
                       ![o].pc = "create_block",
                       ![o].previous_hash = blocks[k].block_hash,
                       ![o].next_index = next_index_of(blocks[k].index)]
          /\ history' = [history EXCEPT !.overlapped = @ \/ OtherCreationOpen(o)]
       \/ /\ StorageFault
          /\ tasks' = [tasks EXCEPT ![o] =
                 Publish([@ EXCEPT !.faulted = TRUE], active_connections, FALSE)]
    /\ UNCHANGED <<engine, operations, mathematical_work, blocks, active_connections>>

ExecCreateBlockRaises(o) ==
    /\ tasks[o].pc = "create_block"
    /\ \/ /\ blocks' = create_block(blocks, tasks[o].next_index,
                           tasks[o].previous_hash, tasks[o].work_id,
                           operations[o].difficulty,
                           mathematical_work[tasks[o].work_id].scientific_value, o,
                           mathematical_work[tasks[o].work_id].energy_efficiency \div 1000,
                           1)
          /\ tasks' = [tasks EXCEPT ![o] =
                 Publish([@ EXCEPT !.block_id = Len(blocks')], active_connections, TRUE)]
          /\ UNCHANGED history
       \/ /\ history.faults < MaxStorageFaults
          /\ tasks' = [tasks EXCEPT ![o] = Raise(@, "storage error", TRUE)]
          /\ history' = [history EXCEPT !.faults = @ + 1, !.appendFailed = TRUE]
          /\ UNCHANGED blocks
    /\ UNCHANGED <<engine, operations, mathematical_work, active_connections>>

\* _create_block_with_discovery, second await: db_manager.create_block, then the two
\* broadcasts.
ExecCreateBlock(o) ==
    /\ tasks[o].pc = "create_block"
    /\ \/ /\ blocks' = create_block(blocks, tasks[o].next_index,
                           tasks[o].previous_hash, tasks[o].work_id,
                           operations[o].difficulty,
                           mathematical_work[tasks[o].work_id].scientific_value, o,
                           mathematical_work[tasks[o].work_id].energy_efficiency \div 1000,
                           1)
          /\ tasks' = [tasks EXCEPT ![o] =
                 Publish([@ EXCEPT !.block_id = Len(blocks')], active_connections, TRUE)]
          /\ UNCHANGED history
       \/ /\ history.faults < MaxStorageFaults
          /\ tasks' = [tasks EXCEPT ![o] =
                 Publish([@ EXCEPT !.faulted = TRUE], active_connections, FALSE)]
          /\ history' = [history EXCEPT !.faults = @ + 1, !.appendFailed = TRUE]
          /\ UNCHANGED blocks
    /\ UNCHANGED <<engine, operations, mathematical_work, active_connections>>

ExecExceptPropagates(o) ==
    /\ tasks[o].pc = "except"
    /\ operations' = [q \in OpIds |->
           IF q = o \/ operations[q].status = "active"
           THEN [operations[q] EXCEPT !.progress = 10, !.current_result = "failed",
                                      !.error = tasks[o].error]
           ELSE operations[q]]
    /\ tasks' = [tasks EXCEPT ![o].pc = "done"]
    /\ UNCHANGED <<engine, mathematical_work, blocks, active_connections, history>>

\* except Exception as e: await update_mining_operation(operation_id, 1.0,
\* {"status": "failed", "error": str(e)}); if that call raises too, the task ends
\* with the record as it was.
ExecExcept(o) ==
    /\ tasks[o].pc = "except"
    /\ \/ /\ operations' = update_mining_operation(operations, o, 10, "failed",
                                                   tasks[o].error)
          /\ tasks' = [tasks EXCEPT ![o].pc = "done"]
          /\ UNCHANGED history
       \/ /\ StorageFault
          /\ tasks' = [tasks EXCEPT ![o].pc = "done", ![o].faulted = TRUE]
          /\ UNCHANGED operations
    /\ UNCHANGED <<engine, mathematical_work, blocks, active_connections>>

\* _execute_mining_operation: the next step of the execution task of operation o.
ExecStep(o) ==
    \/ ExecUpdateComputing(o)
    \/ ExecUpdateValidating(o)
    \/ ExecCreateWork(o)
    \/ ExecComplete(o)
    \/ ExecGetLatestBlock(o)
    \/ ExecCreateBlock(o)
    \/ ExecExcept(o)

\* WebSocketManager.connect / disconnect
Connect ==
    /\ active_connections < MaxConnections
    /\ active_connections' = active_connections + 1
    /\ UNCHANGED <<engine, operations, tasks, mathematical_work, blocks, history>>

Disconnect ==
    /\ active_connections > 0
    /\ active_connections' = active_connections - 1
    /\ UNCHANGED <<engine, operations, tasks, mathematical_work, blocks, history>>

(***************************************************************************)
(* Autonomous operation (mining_operations.py): producer loops, the health *)
(* monitor and the metrics aggregator, started by start_autonomous_mining  *)
(* and ended by clearing the running flag.  Each loop is a coroutine: one  *)
(* action runs it from one suspension (a sleep, a storage call) to the     *)
(* next.  start_autonomous_mining is called once, at application startup.  *)
(***************************************************************************)
\* The producers modelled, out of the roster of five specialized and three general
\* ones: one of each kind.  The producers share nothing but the flag and the
\* operations table, which the submit endpoint fills as well: a behaviour follows
\* one producer of the roster, next to the two monitors.
Miners == {"autonomous_riemann", "autonomous_general_1"}

Monitors == {"health", "metrics"}

\* The work type of a specialized producer; "" (None) for a general one.
specialization(p) ==
    CASE p = "autonomous_riemann" -> "riemann_zero"
      [] p = "autonomous_prime" -> "prime_pattern"
      [] p = "autonomous_yang_mills" -> "yang_mills"
      [] p = "autonomous_navier_stokes" -> "navier_stokes"
      [] p = "autonomous_goldbach" -> "goldbach_verification"
      [] OTHER -> ""

\* The whole roster of start_autonomous_mining.
Roster ==
    {"autonomous_riemann", "autonomous_prime", "autonomous_yang_mills",
     "autonomous_navier_stokes", "autonomous_goldbach", "autonomous_general_1",
     "autonomous_general_2", "autonomous_general_3"}

MaxConsecutiveErrors == 5

BackoffBase(p) == IF specialization(p) = "" THEN 30 ELSE 45
BackoffCap(p) == IF specialization(p) = "" THEN 300 ELSE 400
ResetDelay(p) == IF specialization(p) = "" THEN 60 ELSE 90

\* wait_time = random.uniform(15, 45) / random.uniform(45, 90): the two ends.
WaitTimes(p) == IF specialization(p) = "" THEN {15, 45} ELSE {45, 90}

MinerDifficultiesRaised(p, consecutive_errors) ==
    IF specialization(p) = ""
    THEN (IF consecutive_errors > 2 THEN {80, 120} ELSE {40, 80})
    ELSE (IF consecutive_errors > 2 THEN {100, 160} ELSE {50, 100})

\* random.randint(40, 80), or (25, 45) once consecutive_errors > 2; for a specialized
\* producer (50, 100), or (30, 60): the two ends of the range.
MinerDifficulties(p, consecutive_errors) ==
    IF specialization(p) = ""
    THEN (IF consecutive_errors > 2 THEN {25, 45} ELSE {40, 80})
    ELSE (IF consecutive_errors > 2 THEN {30, 60} ELSE {50, 100})

\* math_engines.get_available_work_types()
get_available_work_types ==
    IF engine = "hybrid" THEN SimWorkTypes \cup real_computation_types ELSE SimWorkTypes

\* random.choice(work_types) for a general producer (one of the choices), the
\* specialization for a specialized one.
MinerWorkTypes(p) ==
    IF specialization(p) = ""
    THEN {"yang_mills"} \cap get_available_work_types
    ELSE {specialization(p)}

backoff_time_uncapped(p, consecutive_errors) ==
    BackoffBase(p) * 2^consecutive_errors

\* backoff_time = min(30 * (2 ** consecutive_errors), 300), resp. min(45 * ..., 400)
backoff_time(p, consecutive_errors) ==
    Min2(BackoffBase(p) * 2^consecutive_errors, BackoffCap(p))

\* A loop that has not been created; sleep is the argument of the loop's last
\* asyncio.sleep, in seconds.
NotStarted == [pc |-> "not_started", consecutive_errors |-> 0, sleep |-> 0]

Scheduled == [pc |-> "scheduled", consecutive_errors |-> 0, sleep |-> 0]

\* A monitor loop; alerts are the warnings its last cycle logged.
MonitorNotStarted ==
    [pc |-> "not_started", consecutive_errors |-> 0, sleep |-> 0, alerts |-> {}]

MonitorScheduled ==
    [pc |-> "scheduled", consecutive_errors |-> 0, sleep |-> 0, alerts |-> {}]

\* start_autonomous_mining, first call: return if already running; set the flag and
\* create the tasks of the producers (here: of the one followed) and of the two
\* monitors.
StartAutonomousMining ==
    /\ ~autonomous_miners_running
    /\ \A p \in Miners : miners[p].pc = "not_started"
    /\ autonomous_miners_running' = TRUE
    /\ \E p \in Miners : miners' = [miners EXCEPT ![p] = Scheduled]
    /\ monitors' = [m \in Monitors |-> MonitorScheduled]
    /\ UNCHANGED <<network_metrics, managerVars>>

StopAutonomousMiningCancels ==
    /\ autonomous_miners_running
    /\ autonomous_miners_running' = FALSE
    /\ tasks' = [o \in OpIds |-> [tasks[o] EXCEPT !.pc = "cancelled"]]
    /\ history' = [history EXCEPT
           !.inFlightAtStop = {o \in OpIds : tasks[o].pc # "done"}]
    /\ UNCHANGED <<miners, monitors, network_metrics>>
    /\ UNCHANGED <<engine, operations, mathematical_work, blocks, active_connections>>

\* stop_autonomous_mining: clears the flag.  (history notes which executions were
\* not yet at their end.)
StopAutonomousMining ==
    /\ autonomous_miners_running
    /\ autonomous_miners_running' = FALSE
    /\ history' = [history EXCEPT
           !.inFlightAtStop = {o \in OpIds : tasks[o].pc # "done"}]
    /\ UNCHANGED <<miners, monitors, network_metrics>>
    /\ UNCHANGED <<engine, operations, tasks, mathematical_work, blocks,
                   active_connections>>

\* A loop task that has been created and has not returned.
IsLive(loop) == loop.pc \notin {"not_started", "stopped"}

LoopOf(n) == IF n \in Miners THEN miners[n] ELSE monitors[n]

\* start_autonomous_mining, a later call: the flag is clear again after a stop, so
\* the call sets it and creates a new task for every name of the roster.  It
\* looks at nothing but the flag: the loops of the earlier call that have not yet
\* come back from their sleep to see the cleared flag stay live.
RestartAutonomousMining ==
    /\ ~autonomous_miners_running
    /\ \E m \in Monitors : monitors[m].pc # "not_started"
    /\ \A n \in Miners \cup Monitors : IsLive(LoopOf(n)) => earlier[n] < MaxRestarts
    /\ autonomous_miners_running' = TRUE
    /\ earlier' = [n \in Miners \cup Monitors |->
                      earlier[n] + (IF IsLive(LoopOf(n)) THEN 1 ELSE 0)]
    /\ \E p \in Miners :
          miners' = [q \in Miners |-> IF q = p THEN Scheduled ELSE NotStarted]
    /\ monitors' = [m \in Monitors |-> MonitorScheduled]
    /\ UNCHANGED <<network_metrics, managerVars>>

\* A loop of an earlier call comes back from its sleep, finds the flag clear and
\* returns.  (With the flag set it goes on like the loops followed.)
EarlierLoopExits(n) ==
    /\ earlier[n] > 0
    /\ ~autonomous_miners_running
    /\ earlier' = [earlier EXCEPT ![n] = @ - 1]
    /\ UNCHANGED <<autonomous_miners_running, miners, monitors, network_metrics,
                   managerVars>>

MinerLoopGivesUp(p) ==
    /\ miners[p].pc \in {"scheduled", "sleeping"}
    /\ miners' = [miners EXCEPT ![p] =
           [@ EXCEPT !.pc = IF autonomous_miners_running
                               /\ miners[p].consecutive_errors < MaxConsecutiveErrors
                            THEN "submitting" ELSE "stopped"]]
    /\ UNCHANGED <<autonomous_miners_running, monitors, network_metrics, managerVars>>

MinerLoopKeepsCount(p) ==
    /\ miners[p].pc \in {"scheduled", "sleeping"}
    /\ miners' = [miners EXCEPT ![p] =
           [@ EXCEPT !.pc = IF autonomous_miners_running
                            THEN "submitting" ELSE "stopped"]]
    /\ UNCHANGED <<autonomous_miners_running, monitors, network_metrics, managerVars>>

\* A producer loop resumes (its task starts, or its sleep ends): the counter is reset
\* after the reset wait, then the while condition is evaluated; with the flag set the
\* loop goes on into start_mining_operation, up to its storage call.
MinerLoop(p) ==
    /\ miners[p].pc \in {"scheduled", "sleeping"}
    /\ miners' = [miners EXCEPT ![p] =
           [@ EXCEPT !.consecutive_errors =
                         IF @ >= MaxConsecutiveErrors THEN 0 ELSE @,
                     !.pc = IF autonomous_miners_running
                            THEN "submitting" ELSE "stopped"]]
    /\ UNCHANGED <<autonomous_miners_running, monitors, network_metrics, managerVars>>

\* The except clause of a producer loop: count the error, then the reset wait at
\* max_consecutive_errors, the exponential backoff below it.
MinerFailed(p, m) ==
    LET consecutive_errors == m.consecutive_errors + 1
    IN  [pc |-> "sleeping", consecutive_errors |-> consecutive_errors,
         sleep |-> IF consecutive_errors >= MaxConsecutiveErrors
                   THEN ResetDelay(p)
                   ELSE backoff_time(p, consecutive_errors)]

\* start_mining_operation returns to the producer or raises in it.  The table holds
\* at most MaxOps rows here: an insert into a full table fails like any storage
\* error.
MinerSubmit(p) ==
    /\ miners[p].pc = "submitting"
    /\ \E work_type \in MinerWorkTypes(p),
          difficulty \in MinerDifficulties(p, miners[p].consecutive_errors),
          wait_time \in WaitTimes(p) :
          /\ \/ StartMiningOperation(work_type, difficulty)
             \/ /\ Len(operations) >= MaxOps
                /\ history' = [history EXCEPT !.response = [kind |-> "raised", id |-> 0]]
                /\ UNCHANGED <<engine, operations, tasks, mathematical_work, blocks,
                               active_connections>>
          /\ miners' = [miners EXCEPT ![p] =
                 IF history'.response.kind = "handle"
                 THEN [pc |-> "sleeping", consecutive_errors |-> 0, sleep |-> wait_time]
                 ELSE MinerFailed(p, @)]
    /\ UNCHANGED <<autonomous_miners_running, monitors, network_metrics>>

MonitorLoopForever(m) ==
    /\ monitors[m].pc \in {"scheduled", "sleeping"}
    /\ monitors' = [monitors EXCEPT ![m] =
           [@ EXCEPT !.pc = "collecting", !.sleep = 0, !.alerts = {}]]
    /\ UNCHANGED <<autonomous_miners_running, miners, network_metrics, managerVars>>

\* A monitor loop resumes and evaluates its while condition.
MonitorLoop(m) ==
    /\ monitors[m].pc \in {"scheduled", "sleeping"}
    /\ monitors' = [monitors EXCEPT ![m] =
           [@ EXCEPT !.pc = IF autonomous_miners_running THEN "collecting" ELSE "stopped",
                     !.sleep = 0, !.alerts = {}]]
    /\ UNCHANGED <<autonomous_miners_running, miners, network_metrics, managerVars>>

MinActiveOperations == 3

HealthWindow == 10

\* The warnings of one health cycle: low activity when fewer than three operations
\* are active, no recent blocks when none of the blocks read is younger than five
\* minutes.
health_alerts(active_ops, recent_block_count) ==
    (IF active_ops < MinActiveOperations THEN {"low_activity"} ELSE {})
    \cup (IF recent_block_count = 0 THEN {"no_recent_blocks"} ELSE {})

HealthCheckRestarts ==
    /\ monitors["health"].pc = "collecting"
    /\ monitors' = [monitors EXCEPT !["health"].pc = "sleeping",
                                    !["health"].sleep = 120]
    /\ miners' = [p \in Miners |->
           IF miners[p].pc = "not_started" THEN miners[p] ELSE Scheduled]
    /\ operations' = [o \in OpIds |->
           IF operations[o].current_result = "failed"
           THEN [operations[o] EXCEPT !.current_result = "initializing", !.progress = 0]
           ELSE operations[o]]
    /\ UNCHANGED <<autonomous_miners_running, network_metrics>>
    /\ UNCHANGED <<engine, tasks, mathematical_work, blocks, active_connections, history>>

\* _monitor_miner_health, one cycle: read the active operations and the last ten
\* blocks, keep the blocks younger than five minutes (block times are not kept
\* here: any number of the blocks read may be that young), log, sleep 120; after
\* an exception, sleep 60.
HealthCheck ==
    /\ monitors["health"].pc = "collecting"
    /\ \/ /\ \E recent_block_count \in
                 0..Cardinality(get_blocks(blocks, HealthWindow)) :
                monitors' = [monitors EXCEPT
                    !["health"].pc = "sleeping",
                    !["health"].sleep = 120,
                    !["health"].alerts =
                        health_alerts(Cardinality(get_active_mining_operations(operations)),
                                      recent_block_count)]
          /\ UNCHANGED history
       \/ /\ StorageFault
          /\ monitors' = [monitors EXCEPT !["health"].pc = "sleeping",
                                         !["health"].sleep = 60]
    /\ UNCHANGED <<autonomous_miners_running, miners, network_metrics>>
    /\ UNCHANGED <<engine, operations, tasks, mathematical_work, blocks,
                   active_connections>>

\* _collect_network_metrics, one cycle: read, store a metrics row with active_miners =
\* len(operations) + 5, broadcast it (numbers only), sleep 30; after an exception,
\* sleep 30.
CollectMetrics ==
    /\ monitors["metrics"].pc = "collecting"
    /\ \/ /\ network_metrics' = network_metrics \cup
                 {[active_miners |->
                      Cardinality(get_active_mining_operations(operations)) + 5]}
          /\ UNCHANGED history
       \/ /\ StorageFault
          /\ UNCHANGED network_metrics
    /\ monitors' = [monitors EXCEPT !["metrics"].pc = "sleeping",
                                   !["metrics"].sleep = 30]
    /\ UNCHANGED <<autonomous_miners_running, miners>>
    /\ UNCHANGED <<engine, operations, tasks, mathematical_work, blocks,
                   active_connections>>

\* No response yet from start_mining_operation or from the endpoint in front of it.
NoResponse == [kind |-> "", id |-> 0]

NoHistory ==
    [overlapped |-> FALSE, appendFailed |-> FALSE, faults |-> 0, response |-> NoResponse,
     inFlightAtStop |-> {}]

NoValuationCall == [called |-> FALSE, valuation |-> NoValuation]
NoHybridCall ==
    [called |-> FALSE, mode |-> "", result |-> NoResult,
     simCalled |-> FALSE, simulation |-> NoResult,
     realCalled |-> FALSE, real |-> NoResult]

NoComparison ==
    [called |-> FALSE, real12 |-> ScoreRaised, real21 |-> ScoreRaised,
     statistical12 |-> ScoreRaised, statistical21 |-> ScoreRaised]

NoVerifyCall ==
    [called |-> FALSE, verification |-> NotVerified("", 0), comparison |-> NoComparison]

IdleValuation == vIn = <<>> /\ vOut = NoValuationCall
IdleHybrid == hIn = <<>> /\ hOut = NoHybridCall
IdleVerify == verIn = <<>> /\ verOut = NoVerifyCall

\* No call of compute_collatz_verification_real in progress.
NoCollatzCall ==
    [pc |-> "idle", difficulty |-> 0, i |-> 0, current |-> 0, steps |-> 0,
     collatz_results |-> <<>>]

IdleCollatz == collatz = NoCollatzCall

\* No loop has been started: start_autonomous_mining has not been called.
IdleLoops ==
    /\ autonomous_miners_running = FALSE
    /\ miners = [p \in Miners |-> NotStarted]
    /\ monitors = [m \in Monitors |-> MonitorNotStarted]
    /\ earlier = [n \in Miners \cup Monitors |-> 0]
    /\ network_metrics = {}

\* The manager after construction, before any client or request.
InitManager ==
    /\ operations = <<>>
    /\ tasks = <<>>
    /\ mathematical_work = <<>>
    /\ blocks = <<>>
    /\ active_connections = 0
    /\ history = NoHistory
    /\ IdleValuation
    /\ IdleHybrid
    /\ IdleLoops
    /\ IdleVerify
    /\ IdleCollatz

\* main.py constructs the manager with the simulated engine.
Init == engine = "simulation" /\ InitManager

\* The manager constructed with the hybrid router as its engine.
InitRouted == engine = "hybrid" /\ InitManager

Next ==
    \/ /\ \/ \E r \in SubmitRequests : SubmitWork(r[1], r[2])
          \/ \E o \in OpIds : ExecUpdateComputing(o)
          \/ \E o \in OpIds : ExecUpdateValidating(o)
          \/ \E o \in OpIds : ExecCreateWork(o)
          \/ \E o \in OpIds : ExecComplete(o)
          \/ \E o \in OpIds : ExecGetLatestBlock(o)
          \/ \E o \in OpIds : ExecCreateBlock(o)
          \/ \E o \in OpIds : ExecExcept(o)
          \/ Connect
          \/ Disconnect
       /\ UNCHANGED <<vIn, vOut, hIn, hOut, verIn, verOut, collatz>>
       /\ UNCHANGED loopVars

Spec == Init /\ [][Next]_vars

SpecRouted == InitRouted /\ [][Next]_vars

(***************************************************************************)
(* Autonomous operation on its own: the loops, with the submissions they   *)
(* make.  A sleep ends and a storage call returns: every loop step is      *)
(* weakly fair.                                                            *)
(***************************************************************************)
\* No call of the valuation, the router or the verification is in progress.
\* Nothing moves besides the manager and the loops of its latest start call.
NoCalls == UNCHANGED <<callVars, earlier>>

NextProducers ==
    /\ \/ StartAutonomousMining
       \/ StopAutonomousMining
       \/ \E p \in Miners : MinerLoop(p)
       \/ \E p \in Miners : MinerSubmit(p)
       \/ \E m \in Monitors : MonitorLoop(m)
       \/ HealthCheck
       \/ CollectMetrics
    /\ NoCalls

LoopsFair ==
    /\ \A p \in Miners : WF_vars(MinerLoop(p) /\ NoCalls)
    /\ \A p \in Miners : WF_vars(MinerSubmit(p) /\ NoCalls)
    /\ \A m \in Monitors : WF_vars(MonitorLoop(m) /\ NoCalls)
    /\ WF_vars(HealthCheck /\ NoCalls)
    /\ WF_vars(CollectMetrics /\ NoCalls)

SpecProducers == Init /\ [][NextProducers]_vars /\ LoopsFair

\* Autonomous operation started, stopped and started again.  What a producer
\* submits is followed in SpecProducers; here a producer that has begun a
\* submission is awaiting it.
NextRestart ==
    /\ \/ /\ \/ StartAutonomousMining
             \/ StopAutonomousMining
             \/ \E p \in Miners : MinerLoop(p)
             \/ \E m \in Monitors : MonitorLoop(m)
             \/ HealthCheck
             \/ CollectMetrics
          /\ UNCHANGED earlier
       \/ RestartAutonomousMining
       \/ \E n \in Miners \cup Monitors : EarlierLoopExits(n)
    /\ UNCHANGED callVars

SpecRestart == Init /\ [][NextRestart]_vars

(***************************************************************************)
(* Producers and executions together: a started producer submits work      *)
(* through submit_mining_work and the event loop runs the execution tasks  *)
(* it creates, interleaved with the producer's own steps and with          *)
(* start/stop.  The monitors only read the tables and write                *)
(* network_metrics; their steps are followed in SpecProducers.             *)
(***************************************************************************)
NextAutonomous ==
    /\ \/ /\ \/ StartAutonomousMining
             \/ StopAutonomousMining
             \/ \E p \in Miners : MinerLoop(p)
             \/ \E p \in Miners : MinerSubmit(p)
       \/ /\ \/ \E o \in OpIds : ExecStep(o)
             \/ Connect
             \/ Disconnect
          /\ UNCHANGED loopVars
    /\ NoCalls

SpecAutonomous == Init /\ [][NextAutonomous]_vars

\* The same without websocket clients.  The event loop keeps running every task
\* it holds until the task returns, whatever the flag says.
NextShutdown ==
    /\ \/ StartAutonomousMining
       \/ StopAutonomousMining
       \/ \E p \in Miners : MinerLoop(p)
       \/ \E p \in Miners : MinerSubmit(p)
       \/ \E o \in OpIds : ExecStep(o) /\ UNCHANGED loopVars
    /\ NoCalls

TasksFair ==
    \A o \in 1..MaxOps :
        WF_vars(o \in OpIds /\ ExecStep(o) /\ UNCHANGED loopVars /\ NoCalls)

SpecShutdown == Init /\ [][NextShutdown]_vars /\ TasksFair

\* The manager under fair scheduling of the execution tasks.
SpecFair == Init /\ [][Next]_vars /\ TasksFair

\* The health monitor next to the manager's own traffic: requests, executions
\* and clients, with operations and blocks coming and going while it cycles.
NextHealth ==
    /\ \/ /\ \/ \E r \in SubmitRequests : SubmitWork(r[1], r[2])
             \/ \E o \in OpIds : ExecStep(o)
             \/ Connect
             \/ Disconnect
          /\ UNCHANGED loopVars
       \/ StartAutonomousMining
       \/ StopAutonomousMining
       \/ MonitorLoop("health")
       \/ HealthCheck
    /\ NoCalls

SpecHealth == Init /\ [][NextHealth]_vars

(***************************************************************************)
(* The valuation engine on its own: one call of calculate_scientific_value *)
(* on arguments drawn from every work type, every difficulty and a grid of *)
(* computation times and energies.                                         *)
(***************************************************************************)
ValuationInputs ==
    [work_type : WorkTypes, difficulty : Difficulties,
     computation_time : {k * TimeStep : k \in 0..MaxTimeSteps} \cup {NotANumber},
     energy_consumed : {k * EnergyStep : k \in 0..MaxEnergySteps} \cup {NotANumber}]

InitValuation ==
    /\ engine = "simulation"
    /\ operations = <<>>
    /\ tasks = <<>>
    /\ mathematical_work = <<>>
    /\ blocks = <<>>
    /\ active_connections = 0
    /\ history = NoHistory
    /\ vIn \in ValuationInputs
    /\ vOut = NoValuationCall
    /\ IdleHybrid
    /\ IdleLoops
    /\ IdleVerify
    /\ IdleCollatz

CallValuation ==
    /\ ~vOut.called
    /\ vOut' = [called |-> TRUE,
                valuation |-> calculate_scientific_value(vIn.work_type, vIn.difficulty,
                                  vIn.computation_time, vIn.energy_consumed)]
    /\ UNCHANGED <<vIn, hIn, hOut, verIn, verOut, collatz>>
    /\ UNCHANGED managerVars
    /\ UNCHANGED loopVars

NextValuation == CallValuation

SpecValuation == InitValuation /\ [][NextValuation]_vars

(***************************************************************************)
(* The hybrid router on its own: one call of compute_mathematical_work on  *)
(* any work type and difficulty; computation_time is the time the real     *)
(* method measures and fault says whether it fails for lack of resources.  *)
(***************************************************************************)
HybridInputs ==
    [work_type : WorkTypes, difficulty : Difficulties,
     computation_time : 0..MaxRealTime, fault : BOOLEAN]

InitHybrid ==
    /\ engine = "hybrid"
    /\ operations = <<>>
    /\ tasks = <<>>
    /\ mathematical_work = <<>>
    /\ blocks = <<>>
    /\ active_connections = 0
    /\ history = NoHistory
    /\ IdleValuation
    /\ hIn \in HybridInputs
    /\ hOut = NoHybridCall
    /\ IdleLoops
    /\ IdleVerify
    /\ IdleCollatz

CallHybrid ==
    /\ ~hOut.called
    /\ hOut' = [hOut EXCEPT
           !.called = TRUE,
           !.mode = determine_computation_mode(hIn.work_type, hIn.difficulty),
           !.result = compute_mathematical_work(hIn.work_type, hIn.difficulty,
                          hIn.computation_time, hIn.fault)]
    /\ UNCHANGED <<vIn, vOut, hIn, verIn, verOut, collatz>>
    /\ UNCHANGED managerVars
    /\ UNCHANGED loopVars

\* The same arguments given to the simulated engine directly.
CallSimulation ==
    /\ ~hOut.simCalled
    /\ hOut' = [hOut EXCEPT !.simCalled = TRUE,
                            !.simulation = SimCompute(hIn.work_type, hIn.difficulty)]
    /\ UNCHANGED <<vIn, vOut, hIn, verIn, verOut, collatz>>
    /\ UNCHANGED managerVars
    /\ UNCHANGED loopVars

\* The same arguments given to the real engine directly.
CallReal ==
    /\ ~hOut.realCalled
    /\ hOut' = [hOut EXCEPT !.realCalled = TRUE,
                            !.real = RealCompute(hIn.work_type, hIn.difficulty,
                                         hIn.computation_time, hIn.fault)]
    /\ UNCHANGED <<vIn, vOut, hIn, verIn, verOut, collatz>>
    /\ UNCHANGED managerVars
    /\ UNCHANGED loopVars

NextHybrid == CallHybrid \/ CallSimulation \/ CallReal

SpecHybrid == InitHybrid /\ [][NextHybrid]_vars

(***************************************************************************)
(* The verification on its own: one call of verify_mathematical_result on  *)
(* a result dict, and one comparison of that dict with a second result of  *)
(* the same work type in both orders.  The dict's fields are drawn from    *)
(* what the engines return and from values next to them.                   *)
(***************************************************************************)
VerifyWorkTypes ==
    real_computation_types \cup {"", "yang_mills", UnknownWorkType}

VerifyDifficulties == {0, 10, 200, 500}

ResultTimes == {0, 680, 800}                    \* ms

ResultEnergies == {0, 28000, 34000, 40000}      \* micro-kWh

ResultMetrics == {0, 850, 1000}                 \* thousandths

VerifyInputs ==
    [workType : VerifyWorkTypes, difficulty : VerifyDifficulties,
     computationMode : {"real", "simulation"},
     computationTime : ResultTimes, energyConsumed : ResultEnergies,
     metric : ResultMetrics,
     metric2 : ResultMetrics, computation_time : 0..MaxRealTime, fault : BOOLEAN]

InitVerify ==
    /\ engine = "hybrid"
    /\ operations = <<>>
    /\ tasks = <<>>
    /\ mathematical_work = <<>>
    /\ blocks = <<>>
    /\ active_connections = 0
    /\ history = NoHistory
    /\ IdleValuation
    /\ IdleHybrid
    /\ IdleLoops
    /\ verIn \in VerifyInputs
    /\ verOut = NoVerifyCall
    /\ IdleCollatz

CallVerify ==
    /\ ~verOut.called
    /\ verOut' = [verOut EXCEPT
           !.called = TRUE,
           !.verification = verify_mathematical_result(verIn, verIn.metric2,
                                verIn.computation_time, verIn.fault)]
    /\ UNCHANGED <<vIn, vOut, hIn, hOut, verIn, collatz>>
    /\ UNCHANGED managerVars
    /\ UNCHANGED loopVars

\* The second result of the comparison: of the same work type, with the time and
\* energy of a real computation.
SecondResult ==
    ResultOf(verIn.workType, "real", verIn.computation_time,
             verIn.computation_time * RealEnergyRate("goldbach_verification"),
             verIn.metric2)

CallCompare ==
    /\ ~verOut.comparison.called
    /\ verOut' = [verOut EXCEPT !.comparison =
           [called |-> TRUE,
            real12 |-> compare_real_results(verIn, SecondResult),
            real21 |-> compare_real_results(SecondResult, verIn),
            statistical12 |-> compare_statistical_results(verIn, SecondResult),
            statistical21 |-> compare_statistical_results(SecondResult, verIn)]]
    /\ UNCHANGED <<vIn, vOut, hIn, hOut, verIn, collatz>>
    /\ UNCHANGED managerVars
    /\ UNCHANGED loopVars

NextVerify == CallVerify \/ CallCompare

SpecVerify == InitVerify /\ [][NextVerify]_vars

(***************************************************************************)
(* The real Collatz engine on its own: one call of                         *)
(* compute_collatz_verification_real.  The method takes any integer: at    *)
(* difficulty 1 the trials start at 1500, at difficulty -2 at 0, a start   *)
(* value whose sequence never arrives at 1.  The loops contain no await:   *)
(* a call that has begun runs on.                                          *)
(***************************************************************************)
CollatzDifficulties == {-2, 1}

InitCollatz ==
    /\ engine = "hybrid"
    /\ operations = <<>>
    /\ tasks = <<>>
    /\ mathematical_work = <<>>
    /\ blocks = <<>>
    /\ active_connections = 0
    /\ history = NoHistory
    /\ IdleValuation
    /\ IdleHybrid
    /\ IdleLoops
    /\ IdleVerify
    /\ \E difficulty \in CollatzDifficulties :
          collatz = [NoCollatzCall EXCEPT !.difficulty = difficulty]

\* The call begins: the for loop takes up its first trial.
CollatzStart ==
    /\ collatz.pc = "idle"
    /\ collatz' = CollatzTrial(collatz, 0)
    /\ UNCHANGED <<vIn, vOut, hIn, hOut, verIn, verOut>>
    /\ UNCHANGED <<managerVars, loopVars>>

NextCollatz == CollatzStart \/ CollatzStep \/ CollatzRecord

SpecCollatz == InitCollatz /\ [][NextCollatz]_vars /\ WF_vars(NextCollatz)

(***************************************************************************)
(* Properties.                                                             *)
(***************************************************************************)

\* C1: when block creations do not overlap and every append succeeds, the first
\* block has index 0 and the zero previous hash, and the N-th block after it has
\* index N and the block hash of the block with index N-1 as its previous hash.
ChainLinked ==
    (~history.overlapped /\ ~history.appendFailed) =>
        \A k \in 1..Len(blocks) :
            /\ blocks[k].index = k - 1
            /\ blocks[k].previous_hash =
                   IF k = 1 THEN ZeroHash ELSE blocks[k - 1].block_hash

\* C1 witness: two blocks were created one after the other, without overlap.
ChainOfTwo ==
    /\ ~history.overlapped
    /\ ~history.appendFailed
    /\ Len(blocks) = 2

\* C2: two operations completing concurrently can both read the same latest block
\* before either appends, and both appends are then stored: whatever the table
\* holds, the block a task appends carries exactly the index and previous hash the
\* task computed from its own read (no lock, no uniqueness or compare-and-swap).
AppendStoresWhatWasRead ==
    \A o \in OpIds :
        tasks[o].block_id # 0 =>
            /\ tasks[o].block_id \in 1..Len(blocks)
            /\ blocks[tasks[o].block_id].miner_id = o
            /\ blocks[tasks[o].block_id].index = tasks[o].next_index
            /\ blocks[tasks[o].block_id].previous_hash = tasks[o].previous_hash

\* C2 witness: two stored blocks, appended by two tasks that read the same latest
\* block, have the same index and the same previous hash.
DuplicateIndexStored ==
    \E o, q \in OpIds :
        /\ o # q
        /\ tasks[o].block_id # 0
        /\ tasks[q].block_id # 0
        /\ tasks[o].block_id # tasks[q].block_id
        /\ blocks[tasks[o].block_id].index = blocks[tasks[q].block_id].index
        /\ blocks[tasks[o].block_id].previous_hash =
               blocks[tasks[q].block_id].previous_hash

\* The stage a persisted operation record shows: failed once its result says so,
\* completed once its status column does, else the stage named in its result.
Stage(op) ==
    IF op.current_result = "failed" THEN "failed"
    ELSE IF op.status = "completed" THEN "completed"
    ELSE op.current_result

LifecycleSteps ==
    {<<"initializing", "computing">>, <<"computing", "validating">>,
     <<"validating", "completed">>, <<"initializing", "failed">>,
     <<"computing", "failed">>, <<"validating", "failed">>}

\* C3: a record advances only along initial -> computing -> validating ->
\* completed or failed; failed is entered from a non-terminal stage only, nothing
\* goes backwards, and the persisted progress never decreases (stated here for
\* the runs in which no storage call fails).
LifecycleOrder ==
    [][\A o \in OpIds :
          history'.faults = 0 =>
          /\ \/ Stage(operations'[o]) = Stage(operations[o])
             \/ <<Stage(operations[o]), Stage(operations'[o])>> \in LifecycleSteps
          /\ operations'[o].progress >= operations[o].progress]_vars

\* C4: once a record is completed or failed it is never mutated again, and a
\* completed operation is never afterwards marked failed (stated here for the runs
\* in which no storage call fails).
TerminalIsFinal ==
    [][\A o \in OpIds :
          (history'.faults = 0 /\ Stage(operations[o]) \in {"completed", "failed"}) =>
              operations'[o] = operations[o]]_vars

\* C5: an operation whose execution raised (storage failures apart) ends with
\* status failed, out of the active set, with progress 1.0 and the error recorded.
FailureMarksFailed ==
    \A o \in OpIds :
        (tasks[o].pc = "done" /\ tasks[o].error # "" /\ ~tasks[o].faulted) =>
            /\ operations[o].status = "failed"
            /\ o \notin get_active_mining_operations(operations)
            /\ operations[o].progress = 10
            /\ operations[o].error = tasks[o].error

\* C6: with the hybrid router as engine and nothing failing, (goldbach_verification,
\* 10) is computed in real mode with verified = true and a value in [1200, 3500],
\* and its operation ends completed with exactly one discovery and exactly one
\* block of its own, whose index is the chain length before it.
GoldbachEndToEnd ==
    \A o \in OpIds :
        (/\ engine = "hybrid"
         /\ operations[o].operation_type = "goldbach_verification"
         /\ operations[o].difficulty = 10
         /\ history.faults = 0
         /\ ~tasks[o].faulted) =>
            /\ tasks[o].pc = "update_validating" =>
                  /\ tasks[o].computation_result.computationMode = "real"
                  /\ tasks[o].computation_result.verified
                  /\ tasks[o].scientific_value.total_value >= MinValueCents
                  /\ tasks[o].scientific_value.total_value <= MaxValueCents
            /\ tasks[o].pc = "done" =>
                  /\ operations[o].status = "completed"
                  /\ Stage(operations[o]) = "completed"
                  /\ Cardinality({w \in 1..Len(mathematical_work) :
                                     mathematical_work[w].worker_id = o}) = 1
                  /\ Cardinality({b \in 1..Len(blocks) : blocks[b].miner_id = o}) = 1
                  /\ ~history.overlapped =>
                        \A b \in 1..Len(blocks) :
                            blocks[b].miner_id = o => blocks[b].index = b - 1

ValuationBounded ==
    vOut.called =>
        /\ vOut.valuation.total_value >= MinValueCents
        /\ vOut.valuation.total_value <= MaxValueCents

\* C8 witness: an unknown work type at difficulty 1000 with positive time and energy
\* has been valued.
ValuationOfUnknownType ==
    /\ vOut.called
    /\ vIn.work_type = UnknownWorkType
    /\ vIn.difficulty = MaxDifficulty
    /\ vIn.computation_time > 0
    /\ vIn.energy_consumed > 0

\* The real engine was invoked by the call and raised.
RealEngineRaised ==
    /\ hOut.called
    /\ hOut.mode = "real"
    /\ RealCompute(hIn.work_type, hIn.difficulty, hIn.computation_time, hIn.fault).raised

\* C9: if the real engine raises, for any of the four real work types, the call is
\* retried exactly once with the simulation engine and returns a
\* 'simulation_fallback' envelope with the error recorded, instead of raising.
FallbackReturnsEnvelope ==
    (RealEngineRaised /\ hIn.work_type \in real_computation_types) =>
        /\ ~hOut.result.raised
        /\ hOut.result.simCalls = 1
        /\ hOut.result.computationMode = "simulation_fallback"
        /\ "error" \in hOut.result.keys
        /\ hOut.result.error # ""

\* C10: every work type with a real-engine implementation is one of the simulated
\* engine's work types, so a request of such a type that ends in the simulation
\* engine (above the threshold, or after a real-mode error) returns a result.
RealTypesSimulable ==
    (hOut.called /\ hIn.work_type \in RealEngineMethods) =>
        /\ hIn.work_type \in SimWorkTypes
        /\ (hOut.mode = "simulation" \/ RealEngineRaised) => ~hOut.result.raised

\* C11: the envelope returned by compute_mathematical_work carries verified = true
\* exactly when its computation mode is real, and verified = false in every other
\* mode; (goldbach_verification, 500) is routed to simulation and has verified =
\* false.
VerifiedIffReal ==
    (hOut.called /\ ~hOut.result.raised) =>
        /\ "verified" \in hOut.result.keys
        /\ hOut.result.verified <=> hOut.result.computationMode = "real"
        /\ (hIn.work_type = "goldbach_verification" /\ hIn.difficulty = 500) =>
              /\ hOut.result.computationMode = "simulation"
              /\ ~hOut.result.verified

\* C12: every envelope returned by compute_mathematical_work, in real, simulation
\* and simulation_fallback mode, carries a merged valuation whose total_value lies
\* in [1200, 3500].
EnvelopeCarriesValuation ==
    (hOut.called /\ ~hOut.result.raised) =>
        /\ hOut.result.computationMode \in {"real", "simulation", "simulation_fallback"}
        /\ "scientificValue" \in hOut.result.keys
        /\ hOut.result.scientificValue.total_value >= MinValueCents
        /\ hOut.result.scientificValue.total_value <= MaxValueCents

\* C13: a submitted request with an unknown workType or a difficulty outside
\* 1..1000 is rejected with a validation error before the core is reached: no
\* operation record exists for such a request and no computation is started for it.
InvalidRequestsRejected ==
    /\ \A o \in OpIds :
          /\ operations[o].operation_type \in
                 (IF engine = "hybrid"
                  THEN SimWorkTypes \cup real_computation_types
                  ELSE SimWorkTypes)
          /\ operations[o].difficulty \in Difficulties
    /\ Len(tasks) = Len(operations)

\* C17: start_mining_operation returns its handle (status 'active', progress 0)
\* right after persisting the record and launching the execution task, before any
\* execution step; it raises only when persisting fails, and then nothing is
\* persisted and no task is launched; what the execution does later never changes
\* what start_mining_operation returned.
StartReturnsAtOnce ==
    [][/\ Len(operations') > Len(operations) =>
             /\ Len(operations') = Len(operations) + 1
             /\ Len(tasks') = Len(operations')
             /\ tasks'[Len(tasks')] = NewTask
             /\ \A o \in OpIds : tasks'[o] = tasks[o] /\ operations'[o] = operations[o]
             /\ operations'[Len(operations')].status = "active"
             /\ operations'[Len(operations')].progress = 0
             /\ history'.response = Handle(Len(operations'))
             /\ history'.faults = history.faults
       /\ (history'.response # history.response /\ history'.response.kind = "raised") =>
             /\ history'.faults = history.faults + 1
             /\ operations' = operations
             /\ tasks' = tasks
       /\ (\E o \in OpIds : tasks'[o] # tasks[o]) =>
             history'.response = history.response]_vars

\* C17 witness: the execution of operation 1 has failed, and the handle returned for
\* it is still the last response.
HandleOfFailedExecution ==
    /\ history.response = Handle(1)
    /\ Len(tasks) = 1
    /\ tasks[1].pc = "done"
    /\ tasks[1].error # ""

\* The discoveries an operation has created.
DiscoveriesOf(o) ==
    {w \in 1..Len(mathematical_work) : mathematical_work[w].worker_id = o}

\* C18: each operation creates at most one discovery, and once an operation has
\* reached its final state a discovery exists for it exactly when its status is
\* completed.
DiscoveryIffCompleted ==
    \A o \in OpIds :
        /\ Cardinality(DiscoveriesOf(o)) <= 1
        /\ tasks[o].pc = "done" =>
              (DiscoveriesOf(o) # {} <=> operations[o].status = "completed")


\* C14: in each producer loop the delay after the n-th consecutive submission
\* error, n below 5, is min(base * 2^n, cap), base 30 s and cap 300 s for a
\* general producer, 45 s and 400 s for a specialized one; the delay does not
\* decrease with n and never exceeds the cap; at 5 consecutive errors the loop
\* waits the fixed reset delay, and resumes with its counter at 0.
IsGeneral(p) == p = "autonomous_general_1"

ClaimedBackoff(p, n) ==
    IF IsGeneral(p) THEN Min2(30 * 2^n, 300) ELSE Min2(45 * 2^n, 400)

BackoffSchedule ==
    [][\A p \in Miners :
        LET before == miners[p]
            after == miners'[p]
            n == after.consecutive_errors
        IN  /\ (before.pc = "submitting" /\ after.pc = "sleeping" /\ n > 0) =>
                  /\ n = before.consecutive_errors + 1
                  /\ n <= 5
                  /\ n < 5 =>
                        /\ after.sleep = ClaimedBackoff(p, n)
                        /\ after.sleep <= (IF IsGeneral(p) THEN 300 ELSE 400)
                        /\ n > 1 => after.sleep >= before.sleep
                  /\ n = 5 => after.sleep = (IF IsGeneral(p) THEN 60 ELSE 90)
            /\ (before.pc = "sleeping" /\ before.consecutive_errors = 5
                  /\ after.pc # "sleeping") => n = 0]_vars

\* Both kinds of producer at the cap: asleep after the fourth consecutive error.
BackoffAtCap ==
    \/ /\ miners["autonomous_general_1"].pc = "sleeping"
       /\ miners["autonomous_general_1"].consecutive_errors = 4
       /\ miners["autonomous_general_1"].sleep = 300
    \/ /\ miners["autonomous_riemann"].pc = "sleeping"
       /\ miners["autonomous_riemann"].consecutive_errors = 4
       /\ miners["autonomous_riemann"].sleep = 400

\* C15: a producer loop exits only when the running flag has been cleared; no
\* error and no number of consecutive errors ends it, and while the flag stays set
\* the loop attempts another submission after every error and every backoff.
ProducerNeverGivesUp ==
    /\ [][\A p \in Miners :
            (miners[p].pc # "stopped" /\ miners'[p].pc = "stopped")
                => ~autonomous_miners_running]_vars
    /\ \A p \in Miners :
          (miners[p].pc = "sleeping" /\ miners[p].consecutive_errors > 0)
              ~> (miners[p].pc = "submitting" \/ ~autonomous_miners_running)

\* A producer submitting again after the reset wait that follows five errors.
ResumedAfterReset ==
    /\ autonomous_miners_running
    /\ \E p \in Miners :
          /\ miners[p].pc = "submitting"
          /\ miners[p].consecutive_errors = 0
          /\ miners[p].sleep = (IF IsGeneral(p) THEN 60 ELSE 90)

\* C16: after stop_autonomous_mining has cleared the flag, every producer loop,
\* the health monitor and the metrics aggregator eventually exit, and no producer
\* begins a submission after it has observed the cleared flag.
LoopsStarted == \A m \in Monitors : monitors[m].pc # "not_started"

LoopsExited ==
    /\ \A p \in Miners : miners[p].pc \in {"not_started", "stopped"}
    /\ \A m \in Monitors : monitors[m].pc = "stopped"

StopEndsEveryLoop ==
    /\ (LoopsStarted /\ ~autonomous_miners_running) ~> LoopsExited
    /\ [][\A p \in Miners :
            /\ miners[p].pc = "stopped" => miners'[p].pc = "stopped"
            /\ (miners[p].pc # "submitting" /\ miners'[p].pc = "submitting")
                  => autonomous_miners_running]_vars

\* Every loop has exited after a producer had submitted work.
EveryLoopExited ==
    /\ LoopsStarted
    /\ LoopsExited
    /\ \E p \in Miners : miners[p].pc = "stopped"
    /\ Len(operations) > 0


\* C19: for two results of the same work type with non-negative metrics, the
\* score of the real-result comparison and the score of the statistical
\* comparison are the same in both orders and lie between 0 and 1.
IsUnitScore(score) == ~score.raised /\ 0 <= score.num /\ score.num <= score.den

ScoreSymmetricBounded ==
    verOut.comparison.called =>
        /\ IsUnitScore(verOut.comparison.real12)
        /\ IsUnitScore(verOut.comparison.real21)
        /\ verOut.comparison.real12 = verOut.comparison.real21
        /\ IsUnitScore(verOut.comparison.statistical12)
        /\ IsUnitScore(verOut.comparison.statistical21)
        /\ verOut.comparison.statistical12 = verOut.comparison.statistical21

\* C20: verify_mathematical_result re-computes the result's (workType, difficulty)
\* exactly once and reports verified exactly when the score is strictly above
\* 0.85; a score of exactly 0.85 is not verified.
VerifiedIffAboveThreshold ==
    verOut.called =>
        LET v == verOut.verification
        IN  /\ v.recomputations <= 1
            /\ (verIn.workType # "" /\ verIn.difficulty # 0) => v.recomputations = 1
            /\ v.verified <=> (v.scored /\ 20 * v.score.num > 17 * v.score.den)
            /\ (v.scored /\ 20 * v.score.num = 17 * v.score.den) => ~v.verified

\* A verification whose score is exactly 0.85.
ScoreExactlyAtThreshold ==
    /\ verOut.called
    /\ verOut.verification.scored
    /\ verOut.verification.score = [raised |-> FALSE, num |-> 17, den |-> 20]
    /\ verOut.verification.recomputations = 1
    /\ ~verOut.verification.verified


\* C21: in the real Collatz engine every trial ends: its step count never exceeds
\* 10000, and a trial that has made 10000 steps without arriving at 1 is recorded
\* as not converged; the call runs to the end of its trials.
CollatzTrialsTerminate ==
    /\ [](/\ collatz.steps <= 10000
          /\ \A k \in 1..Len(collatz.collatz_results) :
                LET r == collatz.collatz_results[k]
                IN  /\ r.steps <= 10000
                    /\ r.converged <=> r.final = 1
                    /\ (r.steps = 10000 /\ r.final # 1) => ~r.converged)
    /\ <>(collatz.pc = "done")

\* A trial cut off at the limit: 10000 steps, recorded as not converged, and the
\* trials after it were still run.
CollatzTrialCutOff ==
    /\ collatz.pc = "done"
    /\ \E k \in 1..Len(collatz.collatz_results) :
          /\ collatz.collatz_results[k].steps = 10000
          /\ ~collatz.collatz_results[k].converged
    /\ \E k \in 1..Len(collatz.collatz_results) : collatz.collatz_results[k].converged


\* C22: calculate_scientific_value never raises to its caller: on an internal
\* error it returns a valuation with total_value 1200 that is tagged as a fallback,
\* with the error recorded.
ValuationNeverRaises ==
    vOut.called =>
        /\ ~vOut.valuation.raised
        /\ (vIn.computation_time = NotANumber \/ vIn.energy_consumed = NotANumber) =>
              /\ vOut.valuation.total_value = 120000
              /\ vOut.valuation.error # ""

\* The fallback valuation returned for an energy that is no number.
FallbackValuationReturned ==
    /\ vOut.called
    /\ vIn.energy_consumed = NotANumber
    /\ vIn.computation_time # NotANumber
    /\ vOut.valuation.total_value = 120000
    /\ vOut.valuation.error = "TypeError"


\* C23: a compute request with a work type unknown to the engine fails with an
\* invalid-input error (ValueError) and produces no result, in the simulated
\* engine, in the real engine and in the hybrid router, whose fallback does not
\* turn an unknown work type into a result.
UnknownTypeFails ==
    /\ (hOut.simCalled /\ hIn.work_type \notin SimWorkTypes) =>
          /\ hOut.simulation.raised
          /\ hOut.simulation.error = "ValueError: Unknown work type"
    /\ (hOut.realCalled /\ hIn.work_type \notin RealEngineMethods) =>
          /\ hOut.real.raised
          /\ hOut.real.error = "ValueError: Unknown real computation type"
    /\ (hOut.called /\ hIn.work_type \notin SimWorkTypes \cup real_computation_types) =>
          /\ hOut.result.raised
          /\ hOut.result.error = "ValueError: Unknown work type"

\* The three engines have each refused the unknown work type.
UnknownTypeRefused ==
    /\ hIn.work_type = UnknownWorkType
    /\ hOut.called /\ hOut.result.raised
    /\ hOut.simCalled /\ hOut.simulation.raised
    /\ hOut.realCalled /\ hOut.real.raised


\* C24: for each of the four real computation types, the hybrid system's compute
\* at difficulty 5 returns computationMode 'real' and its compute at difficulty 300
\* returns computationMode 'simulation' (the real engine not failing for lack of
\* resources).
HybridSelfTestModes ==
    (hOut.called /\ ~hIn.fault
       /\ hIn.work_type \in {"goldbach_verification", "prime_gap_analysis",
                             "fibonacci_patterns", "collatz_verification"}) =>
        /\ hIn.difficulty = 5 =>
              ~hOut.result.raised /\ hOut.result.computationMode = "real"
        /\ hIn.difficulty = 300 =>
              ~hOut.result.raised /\ hOut.result.computationMode = "simulation"


\* C25: an operation that reaches completed has progress 1.0 in its persisted
\* record (looked at when its execution has ended).
CompletedHasFullProgress ==
    \A o \in OpIds :
        (tasks[o].pc = "done" /\ operations[o].status = "completed") =>
            operations[o].progress = 10

\* C26: within one operation's execution the order is: discovery persisted,
\* operation marked completed, block created, new_block published,
\* mining_completed published; each of the two events is published at most once
\* per operation, and mining_completed only for an operation whose status is
\* completed.  (Published: handed to the broadcast; see C3 for what a connected
\* client receives.)
EventTypes(o) == [k \in 1..Len(tasks[o].published) |-> tasks[o].published[k].type]

BlocksOf(o) == {b \in 1..Len(blocks) : blocks[b].miner_id = o}

ExecutionOrder ==
    \A o \in OpIds :
        /\ EventTypes(o) \in {<<>>, <<"new_block">>, <<"mining_completed">>,
                              <<"new_block", "mining_completed">>}
        /\ operations[o].status = "completed" => DiscoveriesOf(o) # {}
        /\ BlocksOf(o) # {} => operations[o].status = "completed"
        /\ (\E k \in 1..Len(tasks[o].published) : tasks[o].published[k].type = "new_block")
              => BlocksOf(o) # {}
        /\ EventTypes(o) # <<>> => operations[o].status = "completed"

\* An execution that went through all five steps.
AllStepsTaken ==
    \E o \in OpIds :
        /\ tasks[o].pc = "done"
        /\ EventTypes(o) = <<"new_block", "mining_completed">>
        /\ \A k \in 1..2 : tasks[o].published[k].outcome # "raised"
        /\ BlocksOf(o) # {}
        /\ DiscoveriesOf(o) # {}
        /\ operations[o].status = "completed"

\* C27: a failure inside the execution of an operation (a compute error, a
\* storage error, a failed publish) stays in that operation: the step in which
\* its task takes the error, and the step of its except handler, leave every
\* producer's consecutive-error counter and back-off, the running flag, the
\* answer already given to the submitter and the record and task of every other
\* operation as they were.
ExecutionFailureContained ==
    [][\A o \in OpIds :
          (tasks'[o] # tasks[o] /\ tasks'[o].error # "")
          => /\ miners' = miners
             /\ autonomous_miners_running' = autonomous_miners_running
             /\ history'.response = history.response
             /\ \A q \in OpIds \ {o} :
                    operations'[q] = operations[q] /\ tasks'[q] = tasks[q]]_vars

FailureBesideProducer ==
    \E o \in OpIds : \E p \in Miners :
        /\ tasks[o].pc = "done" /\ tasks[o].error # ""
        /\ operations[o].current_result = "failed"
        /\ autonomous_miners_running
        /\ miners[p].pc # "not_started"
        /\ \E q \in OpIds \ {o} : operations[q].current_result # "failed"

\* C28: stopping autonomous operation changes the running flag and nothing
\* else (no operation record, task, work record, block, producer or monitor
\* record), and every operation submitted by then still has its execution run
\* to its end: with no storage fault, to completed or failed.
StopLeavesExecutions ==
    /\ [][(autonomous_miners_running /\ ~autonomous_miners_running')
          => /\ operations' = operations /\ tasks' = tasks
             /\ mathematical_work' = mathematical_work /\ blocks' = blocks
             /\ miners' = miners /\ monitors' = monitors
             /\ network_metrics' = network_metrics
             /\ active_connections' = active_connections]_vars
    /\ \A o \in 1..MaxOps :
          (o \in OpIds /\ ~autonomous_miners_running)
          ~> (/\ o \in OpIds /\ tasks[o].pc = "done"
              /\ (~tasks[o].faulted
                  => Stage(operations[o]) \in {"completed", "failed"}))

FinishedAfterStop ==
    \E o \in history.inFlightAtStop :
        /\ ~autonomous_miners_running
        /\ tasks[o].pc = "done"
        /\ Stage(operations[o]) = "completed"
        /\ blocks # <<>>

StatedSimilarity(a, b) ==
    IF Max2(a, b) > 0 THEN Frac(Max2(a, b) - Abs(a - b), Max2(a, b)) ELSE Frac(1, 1)

StatedAverage(x, y) == Frac(x.num * y.den + y.num * x.den, 2 * x.den * y.den)

\* C30: when the result verified and its re-computation are both real-mode, the
\* verification score is 1 - |a - b| / max(a, b, eps) of the work type's scalar
\* metric, for each of the four real work types; and the statistical comparison
\* of two results, where it yields a score, is the average of the similarity of
\* their computation times and of their energies, each 1 minus the difference
\* over the larger value, not below 0.
VerificationScoreAsStated ==
    /\ (/\ verOut.called /\ verOut.verification.scored
        /\ verIn.computationMode = "real"
        /\ verOut.verification.verificationMode = "real")
       => verOut.verification.score = StatedSimilarity(verIn.metric, verIn.metric2)
    /\ (verOut.comparison.called /\ ~verOut.comparison.statistical12.raised)
       => verOut.comparison.statistical12
            = StatedAverage(
                StatedSimilarity(verIn.computationTime, SecondResult.computationTime),
                StatedSimilarity(verIn.energyConsumed, SecondResult.energyConsumed))

\* baseValue + researchImpact * m + cost, m = min(1 + difficulty/1000 * 0.5, 1.5),
\* cost = min((t/3600) * 0.10 + e * 0.15, 2.0) * 100, clamped to [1200, 3500]: in
\* cents, as whole cents and a fraction over FracDen (t in ms, e in micro-kWh).
StatedTotal(work_type, difficulty, t, e) ==
    LET m2000 == IF 2000 + difficulty < 3000 THEN 2000 + difficulty ELSE 3000
        impact20 == research_impact_factors(work_type) * m2000
        raw == 10 * t + 54 * e
        cost == IF raw < 2 * 100 * 100 * FracDen THEN raw ELSE 2 * 100 * 100 * FracDen
        fr == (impact20 % 20) * (FracDen \div 20) + cost
        whole == base_research_values(work_type) * 100 + impact20 \div 20 + fr \div FracDen
    IN  IF whole < 120000 THEN [whole |-> 120000, frac |-> 0]
        ELSE IF whole >= 350000 THEN [whole |-> 350000, frac |-> 0]
        ELSE [whole |-> whole, frac |-> fr % FracDen]

TotalOf(work_type, difficulty, t, e) ==
    calculate_scientific_value(work_type, difficulty, t, e).total_value

\* C31: on numbers, the valuation's total is clamp_[1200,3500](baseValue +
\* researchImpact * m + cost) (returned rounded to the cent), with the table
\* values, or 600 and 150 for an unknown work type; and the total does not
\* decrease when the difficulty, the computation time or the energy grows.
ValuationAsStated ==
    (vOut.called /\ vIn.computation_time # NotANumber /\ vIn.energy_consumed # NotANumber)
    => LET stated == StatedTotal(vIn.work_type, vIn.difficulty,
                                 vIn.computation_time, vIn.energy_consumed)
           total == vOut.valuation.total_value
       IN  /\ total = RoundCents(stated.whole, stated.frac)
           /\ (vIn.work_type = UnknownWorkType
               => /\ base_research_values(vIn.work_type) = 600
                  /\ research_impact_factors(vIn.work_type) = 150)
           /\ vIn.difficulty > MinDifficulty
              => TotalOf(vIn.work_type, vIn.difficulty - 1, vIn.computation_time,
                         vIn.energy_consumed) <= total
           /\ vIn.computation_time >= TimeStep
              => TotalOf(vIn.work_type, vIn.difficulty, vIn.computation_time - TimeStep,
                         vIn.energy_consumed) <= total
           /\ vIn.energy_consumed >= EnergyStep
              => TotalOf(vIn.work_type, vIn.difficulty, vIn.computation_time,
                         vIn.energy_consumed - EnergyStep) <= total

ValuationAboveFloorAtCostCap ==
    /\ vOut.called
    /\ vIn.computation_time # NotANumber /\ vIn.energy_consumed # NotANumber
    /\ 10 * vIn.computation_time + 54 * vIn.energy_consumed > CostCapFrac
    /\ vOut.valuation.total_value > MinValueCents
    /\ vOut.valuation.total_value < MaxValueCents
    /\ vIn.difficulty > 1

\* C32: under fair scheduling every operation launched eventually reaches
\* completed or failed, whichever step of its execution raises, the storage
\* update that records the failure included; none stays in computing or
\* validating for ever.
EveryOperationEnds ==
    \A o \in 1..MaxOps :
        (o \in OpIds)
        ~> (o \in OpIds /\ Stage(operations[o]) \in {"completed", "failed"})

\* C34: a failure of the read of the latest block or of the append of the block
\* stays inside _create_block_with_discovery: in that step the operation is and
\* stays completed, its discovery is kept, no block and no new_block event are
\* produced, and the mining_completed event is still handed to the publisher;
\* and a completed operation's status never changes afterwards.
BlockFailureContained ==
    [][\A o \in OpIds :
          /\ (/\ tasks[o].pc \in {"get_latest_block", "create_block"}
              /\ tasks'[o] # tasks[o]
              /\ history'.faults > history.faults)
             => /\ operations[o].status = "completed"
                /\ operations' = operations
                /\ tasks[o].work_id \in 1..Len(mathematical_work)
                /\ mathematical_work' = mathematical_work
                /\ blocks' = blocks
                /\ tasks'[o].block_id = 0
                /\ tasks'[o].published =
                      <<[type |-> "mining_completed",
                         outcome |-> broadcast(active_connections, TRUE)]>>
          /\ operations[o].status = "completed"
             => operations'[o].status = "completed"]_vars

BlockAppendFailedQuietly ==
    \E o \in OpIds :
        /\ history.appendFailed
        /\ tasks[o].pc = "done" /\ tasks[o].faulted /\ tasks[o].error = ""
        /\ tasks[o].work_id # 0 /\ tasks[o].block_id = 0
        /\ operations[o].status = "completed"
        /\ tasks[o].published = <<[type |-> "mining_completed", outcome |-> "no_connections"]>>

\* C35: every stored block carries exactly one discovery: knowledge_created is 1
\* and the merkle root names a stored discovery; the block's
\* total_scientific_value is that discovery's scientific_value and so lies in
\* [1200, 3500] dollars; and no discovery is carried by two blocks.
OneDiscoveryPerBlock ==
    \A k \in 1..Len(blocks) :
        /\ blocks[k].knowledge_created = 1
        /\ blocks[k].merkle_root \in 1..Len(mathematical_work)
        /\ blocks[k].total_scientific_value
             = mathematical_work[blocks[k].merkle_root].scientific_value
        /\ blocks[k].total_scientific_value >= MinValueCents
        /\ blocks[k].total_scientific_value <= MaxValueCents
        /\ \A j \in 1..Len(blocks) :
              j # k => blocks[j].merkle_root # blocks[k].merkle_root

TwoBlocksTwoDiscoveries ==
    /\ Len(blocks) = 2
    /\ blocks[1].merkle_root # blocks[2].merkle_root
    /\ blocks[1].total_scientific_value # blocks[2].total_scientific_value
    /\ \A k \in 1..2 : blocks[k].total_scientific_value > MinValueCents

LiveLoops(n) == earlier[n] + (IF IsLive(LoopOf(n)) THEN 1 ELSE 0)

\* C33: across any sequence of start and stop calls at most one loop per roster
\* name (producer, metrics aggregator, health monitor) is live at any time, and a
\* start call made while running creates nothing.
OneLoopPerName ==
    /\ \A n \in Miners \cup Monitors : LiveLoops(n) <= 1
    /\ autonomous_miners_running => ~ENABLED RestartAutonomousMining

\* The difficulty range stated for a producer with the given error counter.
StatedDifficulties(p, consecutive_errors) ==
    IF specialization(p) = ""
    THEN (IF consecutive_errors > 2 THEN 25..45 ELSE 40..80)
    ELSE (IF consecutive_errors > 2 THEN 30..60 ELSE 50..100)

\* The configured engine computes work of this type.
EngineSupports(work_type, difficulty) ==
    IF engine = "hybrid"
    THEN ~compute_mathematical_work(work_type, difficulty, 0, FALSE).raised
    ELSE ~SimCompute(work_type, difficulty).raised

CounterBounded ==
    /\ \A p \in Miners : miners[p].consecutive_errors \in 0..MaxConsecutiveErrors
    /\ [][\A p \in Miners :
            /\ (/\ miners[p].pc = "submitting"
                /\ miners'[p] # miners[p]
                /\ history'.response.kind = "handle")
               => miners'[p].consecutive_errors = 0
            /\ (/\ miners[p].pc = "sleeping"
                /\ miners[p].consecutive_errors = MaxConsecutiveErrors
                /\ miners'[p] # miners[p])
               => miners'[p].consecutive_errors = 0]_vars

\* A producer that took the reset wait after its fifth error and, resuming, found
\* the flag cleared: it has left its loop with the counter at 0.
ResetWaitEndedAtZero ==
    \E p \in Miners :
        /\ miners[p].pc = "stopped"
        /\ miners[p].consecutive_errors = 0
        /\ miners[p].sleep = ResetDelay(p)
        /\ Len(operations) = MaxOps

\* C38: real-mode computation is deterministic in its compared metric: for every
\* real work type w and every difficulty d <= threshold[w], verifying a result
\* produced by compute(w, d), whose re-computation yields the same metric and
\* does not fail for lack of resources, re-routes to real mode, yields a score
\* of 1.0 and reports verified = true.
RealResultReverified ==
    (/\ verOut.called
     /\ verIn.workType \in real_computation_types
     /\ verIn.difficulty <= tractability_thresholds(verIn.workType)
     /\ verIn.computationMode = "real"
     /\ verIn.metric = verIn.metric2
     /\ ~verIn.fault)
    => /\ verOut.verification.scored
       /\ verOut.verification.verificationMode = "real"
       /\ verOut.verification.score = Frac(1, 1)
       /\ verOut.verification.verified

\* C39: for every real work type w and every difficulty d in 1..threshold[w]
\* the real engine's own verification holds (verificationData.verified = true),
\* so an envelope that the router marks verified = true is never one the engine
\* itself reports as unverified; in particular the prime-gap window
\* [1000 + 1000 * d, 1000 + 3000 * d] contains a prime of the sieve for every d
\* up to 150.
EngineVerificationHolds ==
    /\ (/\ hOut.called
        /\ hIn.work_type \in real_computation_types
        /\ hIn.difficulty \in 1..tractability_thresholds(hIn.work_type)
        /\ ~hIn.fault)
       => /\ ~hOut.result.raised
          /\ verification_data_verified(hIn.work_type, hIn.difficulty)
    /\ (hOut.called /\ ~hOut.result.raised /\ hOut.result.verified)
       => verification_data_verified(hIn.work_type, hIn.difficulty)
    /\ (hIn.work_type = "prime_gap_analysis" /\ hIn.difficulty \in 1..150)
       => primes_in_range(hIn.difficulty)

====
